---- MODULE Spec2Model ----
(***************************************************************************)
(* jaytripper: the append-only event store, the projection runtime with    *)
(* its monotonic guard, the signature resolver and the application facade. *)
(*                                                                         *)
(* Rust values are encoded as follows.                                     *)
(*   Option<T>        None is << >>, Some(x) is << x >>                    *)
(*   Result<T, E>     a record with an "ok" flag                           *)
(*   String           a sequence of one-character strings where the code   *)
(*                    looks inside it, a TLA+ string where it does not     *)
(*   HashMap<K, V>    a function whose domain is the set of keys           *)
(*   Timestamp        a number of ticks; TicksPerMilli ticks are one       *)
(*                    millisecond (chrono keeps nanoseconds)               *)
(*   JSON object      a function from field names to values                *)
(***************************************************************************)
EXTENDS Integers, Sequences, FiniteSets, TLC

VARIABLES
    snapshots,      \* history: the snapshots applied directly, in the order applied
    event_log,      \* the event_log table: a set of DbEventRecord rows
    state,          \* AppRuntime.state: ProjectionRuntimeState of the live facade
    emit,           \* per task: the emit_movement call in flight, if any
    appended,       \* history: the successful direct appends, in the order they returned
    applied,        \* history: the global_seq of each record the live facade's
                    \* catch-ups applied to its projection, in the order applied
    ingestor,       \* LocationIngestor: its fields and where run_until_shutdown stands
    shutdown,       \* the watch channel of the shutdown signal, as the receiver sees it
    polls,          \* history: the polls the ingestor started, with what came of each
    token_store,    \* TokenStore: the stored AuthSession of each character, if any
    sso_client,     \* SsoAuthClient: the tokens it holds and the calls made to it
    managed,        \* ManagedEsiClient: its flags, its refresh task and its callers
    last_step       \* history: the step just taken, its arguments and its result

\* the variables of the application facade and of the store
app_vars == << snapshots, event_log, state, emit, appended, applied >>

\* the variables of the ESI side: ingestor and authentication
esi_vars == << ingestor, shutdown, polls, token_store, sso_client, managed >>

vars == << app_vars, esi_vars, last_step >>

(***************************************************************************)
(* Bounds of the model.                                                    *)
(***************************************************************************)
\* rows the store may hold before the model stops appending
MaxEvents == 2
\* records in one batch handed to the guard directly
MaxBatchLen == 2
\* highest global_seq of a hand-built record
MaxSeq == 2

\* snapshots applied directly to the projection
MaxSnapshots == 3

\* lines of a text given to the parser directly
MaxLines == 3

\* polls one ingestor starts
MaxPolls == 3

\* calls of ensure_valid_session by one refresh task
MaxEnsures == 2

\* get_current_location calls on one managed client
MaxCalls == 1

\* the ceiling of the failure counter, in place of u32::MAX
FailuresMax == 34
\* ticks per millisecond: the sub-millisecond resolution a Timestamp keeps
TicksPerMilli == 2

None == << >>
Some(x) == << x >>
IsSome(o) == Len(o) = 1
Unwrap(o) == o[1]

Max(a, b) == IF a >= b THEN a ELSE b

SetMax(S) == CHOOSE x \in S : \A y \in S : y <= x

(***************************************************************************)
(* jaytripper_core: identifiers, timestamps, event constants               *)
(***************************************************************************)
CHARACTER_MOVED_EVENT_TYPE == "character_moved"
CHARACTER_MOVED_SCHEMA_VERSION == 1
SYSTEM_SIGNATURES_OBSERVED_EVENT_TYPE == "system_signatures_observed"
SYSTEM_SIGNATURES_OBSERVED_SCHEMA_VERSION == 1

CharacterIds == {1, 2}
SolarSystemIds == {1, 2}

\* Timestamp::as_epoch_millis: whole milliseconds, the rest is dropped
as_epoch_millis(t) == t \div TicksPerMilli

\* Timestamp::from_epoch_millis
from_epoch_millis(m) == Some(m * TicksPerMilli)

character_stream_key(character_id) == << "character", character_id >>

system_stream_key(system_id) == << "system", system_id >>

\* MovementEvent::as_character_moved_payload, then serde_json::to_string
as_character_moved_payload(event) ==
    [from_system_id |-> event.from_system_id, to_system_id |-> event.to_system_id]

\* SystemSignaturesObservedEvent::as_payload, then serde_json::to_string
as_payload(event) ==
    [system_id |-> event.system_id,
     snapshot_id |-> event.snapshot_id,
     entries |-> event.entries]

\* serde_json::from_str::<CharacterMovedPayload>: to_system_id is required,
\* a missing Option field reads as None
DecodeCharacterMovedPayload(json) ==
    IF "to_system_id" \in DOMAIN json
    THEN [ok |-> TRUE,
          payload |-> [from_system_id |-> IF "from_system_id" \in DOMAIN json
                                          THEN json.from_system_id ELSE None,
                       to_system_id |-> json.to_system_id]]
    ELSE [ok |-> FALSE, error |-> "PayloadSerialization"]

\* serde_json::from_str::<SystemSignaturesObservedPayload>: all three fields required
DecodeSystemSignaturesObservedPayload(json) ==
    IF {"system_id", "snapshot_id", "entries"} \subseteq DOMAIN json
    THEN [ok |-> TRUE,
          payload |-> [system_id |-> json.system_id,
                       snapshot_id |-> json.snapshot_id,
                       entries |-> json.entries]]
    ELSE [ok |-> FALSE, error |-> "PayloadSerialization"]

(***************************************************************************)
(* jaytripper_store: the event log                                         *)
(***************************************************************************)
\* EventSource::as_str
EventSource_as_str(source) ==
    CASE source = "Esi" -> "esi"
      [] source = "Manual" -> "manual"
      [] source = "Import" -> "import"
      [] source = "Sync" -> "sync"

\* EventSource::from_str
EventSource_from_str(value) ==
    CASE value = "esi" -> [ok |-> TRUE, source |-> "Esi"]
      [] value = "manual" -> [ok |-> TRUE, source |-> "Manual"]
      [] value = "import" -> [ok |-> TRUE, source |-> "Import"]
      [] value = "sync" -> [ok |-> TRUE, source |-> "Sync"]
      [] OTHER -> [ok |-> FALSE, error |-> "InvalidEventSource"]

map_movement_source(source) == "Esi"

map_signature_source(source) == "Manual"

\* the global_seq the table gives the next inserted row (INTEGER PRIMARY KEY AUTO)
NextGlobalSeq(table) ==
    IF table = {} THEN 1 ELSE SetMax({ r.global_seq : r \in table }) + 1

\* the UNIQUE constraint on event_id
EventIdTaken(table, event_id) == \E r \in table : r.event_id = event_id

\* the row append_event binds for the INSERT
InsertedRow(table, event) ==
    [global_seq |-> NextGlobalSeq(table),
     event_id |-> event.event_id,
     event_type |-> event.event_type,
     schema_version |-> event.schema_version,
     stream_key |-> event.stream_key,
     occurred_at_epoch_millis |-> as_epoch_millis(event.occurred_at),
     recorded_at_epoch_millis |-> as_epoch_millis(event.recorded_at),
     attribution_character_id |-> event.attribution_character_id,
     source |-> EventSource_as_str(event.source),
     payload_json |-> event.payload_json]

\* an append that returns the number of rows the INSERT affected
append_event_rows_affected(table, event) ==
    IF EventIdTaken(table, event.event_id)
    THEN [table |-> table, result |-> [ok |-> FALSE, error |-> "Database"]]
    ELSE [table |-> table \cup {InsertedRow(table, event)},
          result |-> [ok |-> TRUE, global_seq |-> 1]]

\* EventLogStore::append_event: the table after the call and the call's result
append_event(table, event) ==
    IF EventIdTaken(table, event.event_id)
    THEN [table |-> table, result |-> [ok |-> FALSE, error |-> "Database"]]
    ELSE LET row == InsertedRow(table, event)
         IN  [table |-> table \cup {row},
              result |-> [ok |-> TRUE, global_seq |-> row.global_seq]]

\* TryFrom<DbEventRecord> for EventRecord
EventRecord_try_from(row) ==
    [global_seq |-> row.global_seq,
     envelope |->
        [event_id |-> row.event_id,
         event_type |-> row.event_type,
         schema_version |-> row.schema_version,
         stream_key |-> row.stream_key,
         occurred_at |-> Unwrap(from_epoch_millis(row.occurred_at_epoch_millis)),
         recorded_at |-> Unwrap(from_epoch_millis(row.recorded_at_epoch_millis)),
         attribution_character_id |-> row.attribution_character_id,
         source |-> EventSource_from_str(row.source).source,
         payload_json |-> row.payload_json]]

\* ORDER BY global_seq ASC over a set of rows
RECURSIVE OrderByGlobalSeqAsc(_)
OrderByGlobalSeqAsc(rows) ==
    IF rows = {} THEN << >>
    ELSE LET first == CHOOSE r \in rows : \A o \in rows : r.global_seq <= o.global_seq
         IN  << first >> \o OrderByGlobalSeqAsc(rows \ {first})

MapRecords(rows) == [i \in 1..Len(rows) |-> EventRecord_try_from(rows[i])]

\* EventLogStore::read_ordered_events
read_ordered_events(table) == MapRecords(OrderByGlobalSeqAsc(table))

\* EventLogStore::read_events_since: WHERE global_seq > ?1
read_events_since(table, since_seq) ==
    MapRecords(OrderByGlobalSeqAsc({ r \in table : r.global_seq > since_seq }))

(***************************************************************************)
(* jaytripper_core::signatures: the snapshot parser                        *)
(***************************************************************************)
UpperCaseLetters ==
    {"A", "B", "C", "D", "E", "F", "G", "H", "I", "J", "K", "L", "M",
     "N", "O", "P", "Q", "R", "S", "T", "U", "V", "W", "X", "Y", "Z"}

DecimalDigits == << "0", "1", "2", "3", "4", "5", "6", "7", "8", "9" >>

IsDigit(c) == \E i \in 1..Len(DecimalDigits) : DecimalDigits[i] = c

DigitValue(c) == (CHOOSE i \in 1..Len(DecimalDigits) : DecimalDigits[i] = c) - 1

IsWhitespace(c) == c \in {" ", "\t", "\r"}

\* str::trim
RECURSIVE TrimStart(_)
TrimStart(s) ==
    IF s # << >> /\ IsWhitespace(Head(s)) THEN TrimStart(Tail(s)) ELSE s

RECURSIVE TrimEnd(_)
TrimEnd(s) ==
    IF s # << >> /\ IsWhitespace(s[Len(s)]) THEN TrimEnd(SubSeq(s, 1, Len(s) - 1)) ELSE s

Trim(s) == TrimEnd(TrimStart(s))

\* str::split('\t'): the columns of a line, at least one
RECURSIVE SplitTab(_, _)
SplitTab(s, column) ==
    IF s = << >> THEN << column >>
    ELSE IF Head(s) = "\t" THEN << column >> \o SplitTab(Tail(s), << >>)
    ELSE SplitTab(Tail(s), Append(column, Head(s)))

\* signature_id_regex: ^[A-Z]{3}-[0-9]{3}$
is_valid_signature_id(value) ==
    /\ Len(value) = 7
    /\ \A i \in 1..3 : value[i] \in UpperCaseLetters
    /\ value[4] = "-"
    /\ \A i \in 5..7 : IsDigit(value[i])

to_optional(value) == IF value = << >> THEN None ELSE Some(value)

AllDigits(s) == s # << >> /\ \A i \in 1..Len(s) : IsDigit(s[i])

RECURSIVE DigitsValue(_)
DigitsValue(s) ==
    IF s = << >> THEN 0 ELSE DigitsValue(SubSeq(s, 1, Len(s) - 1)) * 10 + DigitValue(s[Len(s)])

DotPositions(s) == { i \in 1..Len(s) : s[i] = "." }

\* scan_percent_regex: ^([0-9]+(?:\.[0-9]+)?)%$ ; the capture is the text before '%'
ScanPercentCapture(trimmed) ==
    IF trimmed = << >> \/ trimmed[Len(trimmed)] # "%" THEN None
    ELSE LET numeric == SubSeq(trimmed, 1, Len(trimmed) - 1)
             dots == DotPositions(numeric)
         IN  IF dots = {} THEN (IF AllDigits(numeric) THEN Some(numeric) ELSE None)
             ELSE IF Cardinality(dots) = 1
                     /\ AllDigits(SubSeq(numeric, 1, SetMax(dots) - 1))
                     /\ AllDigits(SubSeq(numeric, SetMax(dots) + 1, Len(numeric)))
                  THEN Some(numeric)
                  ELSE None

\* str::parse::<f32> of a captured number, in tenths of a percent: the texts of
\* the model carry at most one fractional digit
ParseF32Tenths(numeric) ==
    LET dots == DotPositions(numeric)
    IN  IF dots = {} THEN DigitsValue(numeric) * 10
        ELSE DigitsValue(SubSeq(numeric, 1, SetMax(dots) - 1)) * 10
                + DigitValue(numeric[SetMax(dots) + 1])

parse_scan_percent(raw, line) ==
    LET trimmed == Trim(raw)
        capture == ScanPercentCapture(trimmed)
    IN  IF trimmed = << >> THEN [ok |-> TRUE, value |-> None]
        ELSE IF ~IsSome(capture)
        THEN [ok |-> FALSE,
              error |-> [kind |-> "InvalidScanPercent", line |-> line, value |-> trimmed,
                         reason |-> "expected numeric value with '%' suffix"]]
        ELSE IF ~(0 <= ParseF32Tenths(Unwrap(capture)) /\ ParseF32Tenths(Unwrap(capture)) <= 1000)
        THEN [ok |-> FALSE,
              error |-> [kind |-> "InvalidScanPercent", line |-> line, value |-> trimmed,
                         reason |-> "value must be between 0 and 100"]]
        ELSE [ok |-> TRUE, value |-> Some(ParseF32Tenths(Unwrap(capture)))]

\* the body of parse_signature_snapshot's loop for one raw line
ParseLine(raw_line, line_number) ==
    LET split == SplitTab(raw_line, << >>)
        columns == [i \in 1..Len(split) |-> Trim(split[i])]
        percent == parse_scan_percent(columns[5], line_number)
    IN  IF Trim(raw_line) = << >> THEN [kind |-> "blank"]
        ELSE IF Len(columns) < 5
        THEN [kind |-> "error",
              error |-> [kind |-> "InvalidColumnCount", line |-> line_number,
                         expected_at_least |-> 5, actual |-> Len(columns)]]
        ELSE IF ~is_valid_signature_id(columns[1])
        THEN [kind |-> "error",
              error |-> [kind |-> "InvalidSignatureId", line |-> line_number,
                         value |-> columns[1]]]
        ELSE IF columns[2] = << >>
        THEN [kind |-> "error", error |-> [kind |-> "MissingGroup", line |-> line_number]]
        ELSE IF ~percent.ok
        THEN [kind |-> "error", error |-> percent.error]
        ELSE [kind |-> "entry",
              entry |-> [signature_id |-> columns[1],
                         group |-> columns[2],
                         site_type |-> to_optional(columns[3]),
                         name |-> to_optional(columns[4]),
                         scan_percent |-> percent.value]]

\* a parser that numbers a line by the entries before it, blank lines left out
RECURSIVE ParseFromCountingEntries(_, _, _)
ParseFromCountingEntries(lines, idx, entries) ==
    IF idx > Len(lines) THEN [ok |-> TRUE, entries |-> entries]
    ELSE LET parsed == ParseLine(lines[idx], Len(entries) + 1)
         IN  CASE parsed.kind = "blank" ->
                    ParseFromCountingEntries(lines, idx + 1, entries)
               [] parsed.kind = "error" -> [ok |-> FALSE, error |-> parsed.error]
               [] parsed.kind = "entry" ->
                    ParseFromCountingEntries(lines, idx + 1,
                                             Append(entries, parsed.entry))

\* parse_signature_snapshot's loop from line idx on
RECURSIVE ParseFrom(_, _, _)
ParseFrom(lines, idx, entries) ==
    IF idx > Len(lines) THEN [ok |-> TRUE, entries |-> entries]
    ELSE LET parsed == ParseLine(lines[idx], idx)
         IN  CASE parsed.kind = "blank" -> ParseFrom(lines, idx + 1, entries)
               [] parsed.kind = "error" -> [ok |-> FALSE, error |-> parsed.error]
               [] parsed.kind = "entry" ->
                    ParseFrom(lines, idx + 1, Append(entries, parsed.entry))

\* The snapshot texts of the model, each given as the lines input.lines() yields.
\* "ABC-123\tG\tS\t\t10.0%\t1 AU"
LineAbc10 ==
    << "A", "B", "C", "-", "1", "2", "3", "\t", "G", "\t", "S", "\t", "\t",
       "1", "0", ".", "0", "%", "\t", "1", " ", "A", "U" >>

\* "ABC-123\tG\t\tN\t5%"
LineAbc5 ==
    << "A", "B", "C", "-", "1", "2", "3", "\t", "G", "\t", "\t", "N", "\t", "5", "%" >>

\* "XYZ-789\tH\t\t\t"
LineXyz == << "X", "Y", "Z", "-", "7", "8", "9", "\t", "H", "\t", "\t", "\t" >>

\* "BAD\tG\tS\t\t10.0%"
LineBadId ==
    << "B", "A", "D", "\t", "G", "\t", "S", "\t", "\t", "1", "0", ".", "0", "%" >>

\* " \t"
LineBlank == << " ", "\t" >>

SnapshotTexts ==
    { << LineAbc10 >>,
      << LineBlank, LineAbc5, LineXyz >>,
      << LineAbc10, LineBadId >> }

\* the parses of the model's texts, computed once
KnownParses == [input \in SnapshotTexts |-> ParseFrom(input, 1, << >>)]

\* parse_signature_snapshot
parse_signature_snapshot(input) ==
    IF input \in DOMAIN KnownParses THEN KnownParses[input] ELSE ParseFrom(input, 1, << >>)

(***************************************************************************)
(* jaytripper_core::signatures: merging a snapshot into a system's map     *)
(***************************************************************************)
EmptyMap == [k \in {} |-> None]

\* HashMap::insert
MapInsert(map, key, value) ==
    [k \in DOMAIN map \cup {key} |-> IF k = key THEN value ELSE map[k]]

\* a merge that lets an entry without scan_percent erase the latest value
LatestOverwritten(signature, entry) == entry.scan_percent

\* latest_scan_percent after an entry: if let Some(percent) = entry.scan_percent
LatestAfter(signature, entry) ==
    IF IsSome(entry.scan_percent) THEN entry.scan_percent
    ELSE signature.latest_scan_percent

\* a merge that keeps the latest value as the highest
HighestIsLatest(signature, entry) ==
    IF IsSome(entry.scan_percent) THEN entry.scan_percent
    ELSE signature.highest_scan_percent_seen

\* highest_scan_percent_seen after an entry:
\* Some(highest_scan_percent_seen.unwrap_or(percent).max(percent))
HighestAfter(signature, entry) ==
    IF IsSome(entry.scan_percent)
    THEN Some(Max(IF IsSome(signature.highest_scan_percent_seen)
                  THEN Unwrap(signature.highest_scan_percent_seen)
                  ELSE Unwrap(entry.scan_percent),
                  Unwrap(entry.scan_percent)))
    ELSE signature.highest_scan_percent_seen

\* the body of merge_signature_snapshot's second loop for one entry
MergeEntry(signatures_by_id, entry) ==
    LET signature ==
            IF entry.signature_id \in DOMAIN signatures_by_id
            THEN signatures_by_id[entry.signature_id]
            ELSE [signature_id |-> entry.signature_id,
                  group |-> entry.group,
                  site_type |-> None,
                  name |-> None,
                  latest_scan_percent |-> None,
                  highest_scan_percent_seen |-> None,
                  missing_from_latest_snapshot |-> FALSE]
        merged ==
            [signature_id |-> signature.signature_id,
             group |-> IF entry.group # << >> THEN entry.group ELSE signature.group,
             site_type |-> IF IsSome(entry.site_type) THEN entry.site_type
                           ELSE signature.site_type,
             name |-> IF IsSome(entry.name) THEN entry.name ELSE signature.name,
             latest_scan_percent |-> LatestAfter(signature, entry),
             highest_scan_percent_seen |-> HighestAfter(signature, entry),
             missing_from_latest_snapshot |-> FALSE]
    IN  MapInsert(signatures_by_id, entry.signature_id, merged)

RECURSIVE MergeEntries(_, _)
MergeEntries(signatures_by_id, entries) ==
    IF entries = << >> THEN signatures_by_id
    ELSE MergeEntries(MergeEntry(signatures_by_id, Head(entries)), Tail(entries))

\* a merge without its first loop
MarkNoneMissing(signatures_by_id) == signatures_by_id

\* merge_signature_snapshot's first loop: every projected signature is marked
\* missing
MarkAllMissing(signatures_by_id) ==
    [k \in DOMAIN signatures_by_id |->
        [signatures_by_id[k] EXCEPT !.missing_from_latest_snapshot = TRUE]]

\* a merge that keeps the signatures of the incoming snapshot only
merge_signature_snapshot_replacing(signatures_by_id, incoming_entries) ==
    MergeEntries([k \in { e \in DOMAIN signatures_by_id :
                            \E i \in DOMAIN incoming_entries :
                                incoming_entries[i].signature_id = e }
                    |-> signatures_by_id[k]],
                 incoming_entries)

merge_signature_snapshot(signatures_by_id, incoming_entries) ==
    MergeEntries(MarkAllMissing(signatures_by_id), incoming_entries)

(***************************************************************************)
(* jaytripper_app::state: the projection and its reducers                  *)
(***************************************************************************)
\* AppProjection::default
DefaultProjection == [characters |-> EmptyMap, signatures_by_system |-> EmptyMap]

\* SystemSignaturesProjection::default
DefaultSystemSignatures == [last_snapshot |-> None, signatures_by_id |-> EmptyMap]

\* ProjectionRuntimeState::default
DefaultState == [projection |-> DefaultProjection, last_projected_seq |-> None]

\* a reducer that keeps the movement observed last instead of the one applied last
ProjectCharacterMovedIfNewer(projection, event, metadata) ==
    IF /\ event.character_id \in DOMAIN projection.characters
       /\ projection.characters[event.character_id].last_movement_observed_at
            > metadata.occurred_at
    THEN projection
    ELSE [projection EXCEPT !.characters =
            MapInsert(@, event.character_id,
                      [current_system_id |-> event.payload.to_system_id,
                       last_movement_observed_at |-> metadata.occurred_at])]

\* ProjectionReducer<CharacterMovedProjectionEvent>::project
ProjectCharacterMoved(projection, event, metadata) ==
    [projection EXCEPT !.characters =
        MapInsert(@, event.character_id,
                  [current_system_id |-> event.payload.to_system_id,
                   last_movement_observed_at |-> metadata.occurred_at])]

\* ProjectionReducer<SystemSignaturesObservedPayload>::project
ProjectSystemSignaturesObserved(projection, event, metadata) ==
    LET system_projection ==
            IF event.system_id \in DOMAIN projection.signatures_by_system
            THEN projection.signatures_by_system[event.system_id]
            ELSE DefaultSystemSignatures
    IN  [projection EXCEPT !.signatures_by_system =
            MapInsert(@, event.system_id,
                [last_snapshot |-> Some([snapshot_id |-> event.snapshot_id,
                                         observed_at |-> metadata.occurred_at]),
                 signatures_by_id |->
                    merge_signature_snapshot(system_projection.signatures_by_id,
                                             event.entries)])]

\* project_event_record: the projection after the call and the call's result
project_event_record(projection, record) ==
    LET envelope == record.envelope
        metadata == [global_seq |-> record.global_seq,
                     occurred_at |-> envelope.occurred_at,
                     event_id |-> envelope.event_id,
                     source |-> envelope.source]
        moved == DecodeCharacterMovedPayload(envelope.payload_json)
        observed == DecodeSystemSignaturesObservedPayload(envelope.payload_json)
        failed(error) == [ok |-> FALSE, error |-> error, projection |-> projection]
    IN  CASE envelope.event_type = CHARACTER_MOVED_EVENT_TYPE ->
                IF envelope.schema_version # CHARACTER_MOVED_SCHEMA_VERSION
                THEN failed("UnsupportedSchemaVersion")
                ELSE IF ~moved.ok THEN failed(moved.error)
                ELSE IF ~IsSome(envelope.attribution_character_id)
                THEN failed("MissingCharacterAttribution")
                ELSE [ok |-> TRUE,
                      projection |->
                        ProjectCharacterMoved(projection,
                            [character_id |-> Unwrap(envelope.attribution_character_id),
                             payload |-> moved.payload],
                            metadata)]
          [] envelope.event_type = SYSTEM_SIGNATURES_OBSERVED_EVENT_TYPE ->
                IF envelope.schema_version # SYSTEM_SIGNATURES_OBSERVED_SCHEMA_VERSION
                THEN failed("UnsupportedSchemaVersion")
                ELSE IF ~observed.ok THEN failed(observed.error)
                ELSE [ok |-> TRUE,
                      projection |->
                        ProjectSystemSignaturesObserved(projection, observed.payload,
                                                        metadata)]
          [] OTHER -> [ok |-> TRUE, projection |-> projection]

(***************************************************************************)
(* jaytripper_app: the monotonic guard                                     *)
(***************************************************************************)
\* a guard that never skips
GuardSkipsNever(runtime_state, record) == FALSE

\* a guard that compares with < where the code compares with <=
GuardSkipsStrict(runtime_state, record) ==
    /\ IsSome(runtime_state.last_projected_seq)
    /\ record.global_seq < Unwrap(runtime_state.last_projected_seq)

\* the guard's test for one record: last_projected_seq is set and
\* record.global_seq <= last_seq
GuardSkips(runtime_state, record) ==
    /\ IsSome(runtime_state.last_projected_seq)
    /\ record.global_seq <= Unwrap(runtime_state.last_projected_seq)

\* a guard that moves last_projected_seq only when the projection changed
GuardStepSeqOnChange(runtime_state, record) ==
    IF GuardSkips(runtime_state, record)
    THEN [state |-> runtime_state, outcome |-> "skipped"]
    ELSE LET projected == project_event_record(runtime_state.projection, record)
         IN  IF projected.ok
             THEN [state |-> [projection |-> projected.projection,
                              last_projected_seq |->
                                IF projected.projection = runtime_state.projection
                                THEN runtime_state.last_projected_seq
                                ELSE Some(record.global_seq)],
                   outcome |-> "applied"]
             ELSE [state |-> runtime_state, outcome |-> projected.error]

\* a guard that sets last_projected_seq before it projects the record
GuardStepSeqFirst(runtime_state, record) ==
    IF GuardSkips(runtime_state, record)
    THEN [state |-> runtime_state, outcome |-> "skipped"]
    ELSE LET projected == project_event_record(runtime_state.projection, record)
         IN  [state |-> [projection |-> projected.projection,
                         last_projected_seq |-> Some(record.global_seq)],
              outcome |-> IF projected.ok THEN "applied" ELSE projected.error]

\* a guard that steps over a record the reducer rejects
GuardStepPassingRejected(runtime_state, record) ==
    IF GuardSkips(runtime_state, record)
    THEN [state |-> runtime_state, outcome |-> "skipped"]
    ELSE LET projected == project_event_record(runtime_state.projection, record)
         IN  [state |-> [projection |-> projected.projection,
                         last_projected_seq |-> Some(record.global_seq)],
              outcome |-> "applied"]

\* a guard that projects the record and forgets to move last_projected_seq
GuardStepKeepingSeq(runtime_state, record) ==
    IF GuardSkips(runtime_state, record)
    THEN [state |-> runtime_state, outcome |-> "skipped"]
    ELSE LET projected == project_event_record(runtime_state.projection, record)
         IN  IF projected.ok
             THEN [state |-> [projection |-> projected.projection,
                              last_projected_seq |-> runtime_state.last_projected_seq],
                   outcome |-> "applied"]
             ELSE [state |-> runtime_state, outcome |-> projected.error]

\* one iteration of project_records_with_monotonic_guard's loop
GuardStep(runtime_state, record) ==
    IF GuardSkips(runtime_state, record)
    THEN [state |-> runtime_state, outcome |-> "skipped"]
    ELSE LET projected == project_event_record(runtime_state.projection, record)
         IN  IF projected.ok
             THEN [state |-> [projection |-> projected.projection,
                              last_projected_seq |-> Some(record.global_seq)],
                   outcome |-> "applied"]
             ELSE [state |-> runtime_state, outcome |-> projected.error]

\* the loop from record idx on; steps collects the state after each iteration
RECURSIVE GuardLoop(_, _, _, _)
GuardLoop(runtime_state, records, idx, steps) ==
    IF idx > Len(records)
    THEN [state |-> runtime_state, result |-> [ok |-> TRUE], steps |-> steps]
    ELSE LET step == GuardStep(runtime_state, records[idx])
         IN  IF step.outcome \in {"skipped", "applied"}
             THEN GuardLoop(step.state, records, idx + 1, Append(steps, step))
             ELSE [state |-> step.state,
                   result |-> [ok |-> FALSE, error |-> step.outcome],
                   steps |-> Append(steps, step)]

\* a guard that undoes the batch when one of its records is rejected
project_records_all_or_nothing(runtime_state, records) ==
    LET run == GuardLoop(runtime_state, records, 1, << >>)
    IN  IF run.result.ok THEN run ELSE [run EXCEPT !.state = runtime_state]

\* project_records_with_monotonic_guard: the state after the call, the call's
\* result, and the iterations it made
project_records_with_monotonic_guard(runtime_state, records) ==
    GuardLoop(runtime_state, records, 1, << >>)

(***************************************************************************)
(* jaytripper_app: the signature target resolver                           *)
(***************************************************************************)
\* the projected system of the context's character, if both are known
CharacterSystem(projection, context) ==
    IF IsSome(context.attribution_character_id)
       /\ Unwrap(context.attribution_character_id) \in DOMAIN projection.characters
    THEN Some(projection.characters[Unwrap(context.attribution_character_id)]
                .current_system_id)
    ELSE None

\* a resolver that gates an Explicit context like an Auto one
resolve_gating_explicit(projection, context) ==
    LET target == IF context.kind = "Explicit" THEN context.system_id
                  ELSE context.focused_system_id
        character_system == CharacterSystem(projection, context)
    IN  IF IsSome(character_system) /\ Unwrap(character_system) # target
        THEN [kind |-> "NeedsConfirmation",
              focused_system_id |-> target,
              character_system_id |-> Unwrap(character_system),
              character_id |-> Unwrap(context.attribution_character_id)]
        ELSE [kind |-> "Record",
              system_id |-> target,
              attribution_character_id |-> context.attribution_character_id]

resolve_signature_target_system(projection, context) ==
    IF context.kind = "Explicit"
    THEN [kind |-> "Record",
          system_id |-> context.system_id,
          attribution_character_id |-> context.attribution_character_id]
    ELSE LET character_system == CharacterSystem(projection, context)
         IN  IF /\ IsSome(context.attribution_character_id)
                /\ IsSome(character_system)
                /\ Unwrap(character_system) # context.focused_system_id
             THEN [kind |-> "NeedsConfirmation",
                   focused_system_id |-> context.focused_system_id,
                   character_system_id |-> Unwrap(character_system),
                   character_id |-> Unwrap(context.attribution_character_id)]
             ELSE [kind |-> "Record",
                   system_id |-> context.focused_system_id,
                   attribution_character_id |-> context.attribution_character_id]

(***************************************************************************)
(* jaytripper_store: the typed appends                                     *)
(***************************************************************************)
\* uuid::Uuid::now_v7: an identifier no earlier call returned; nth numbers the
\* identifiers one handler draws
Uuid_now_v7(table, nth) == << "uuid", 2 * Cardinality(table) + nth >>

\* the NewEvent append_movement_event_at builds
MovementNewEvent(table, event, recorded_at) ==
        [event_id |-> Uuid_now_v7(table, 1),
         event_type |-> CHARACTER_MOVED_EVENT_TYPE,
         schema_version |-> CHARACTER_MOVED_SCHEMA_VERSION,
         stream_key |-> character_stream_key(event.character_id),
         occurred_at |-> event.observed_at,
         recorded_at |-> recorded_at,
         attribution_character_id |-> Some(event.character_id),
         source |-> map_movement_source(event.source),
         payload_json |-> as_character_moved_payload(event)]

\* EventLogStore::append_movement_event_at
append_movement_event_at(table, event, recorded_at) ==
    append_event(table, MovementNewEvent(table, event, recorded_at))

\* the NewEvent append_system_signatures_observed_event_at builds
SignaturesNewEvent(table, event, recorded_at) ==
        [event_id |-> Uuid_now_v7(table, 1),
         event_type |-> SYSTEM_SIGNATURES_OBSERVED_EVENT_TYPE,
         schema_version |-> SYSTEM_SIGNATURES_OBSERVED_SCHEMA_VERSION,
         stream_key |-> system_stream_key(event.system_id),
         occurred_at |-> event.observed_at,
         recorded_at |-> recorded_at,
         attribution_character_id |-> event.attribution_character_id,
         source |-> map_signature_source(event.source),
         payload_json |-> as_payload(event)]

\* EventLogStore::append_system_signatures_observed_event_at
append_system_signatures_observed_event_at(table, event, recorded_at) ==
    append_event(table, SignaturesNewEvent(table, event, recorded_at))

(***************************************************************************)
(* jaytripper_app: the facade                                              *)
(***************************************************************************)
\* a catch-up that reads nothing
catch_up_never(table, runtime_state) ==
    project_records_with_monotonic_guard(runtime_state, << >>)

\* a catch-up that reads only the newest row of the store
catch_up_latest_only(table, runtime_state) ==
    LET highest == IF table = {} THEN 0 ELSE SetMax({ r.global_seq : r \in table })
    IN  project_records_with_monotonic_guard(runtime_state,
            read_events_since(table, IF highest = 0 THEN 0 ELSE highest - 1))

\* AppRuntime::catch_up_projection_from_store_locked
catch_up_projection_from_store_locked(table, runtime_state) ==
    LET since_seq == IF IsSome(runtime_state.last_projected_seq)
                     THEN Unwrap(runtime_state.last_projected_seq) ELSE 0
    IN  project_records_with_monotonic_guard(runtime_state,
                                             read_events_since(table, since_seq))

\* the global_seq of the records whose iteration applied them
AppliedSeqs(records, steps) ==
    LET applied_at == SelectSeq([i \in DOMAIN steps |-> i],
                                LAMBDA i : steps[i].outcome = "applied")
    IN  [k \in DOMAIN applied_at |-> records[applied_at[k]].global_seq]

\* the global_seq of the records a catch-up on this table applies, in the
\* order of its iterations
AppliedBy(table, runtime_state) ==
    AppliedSeqs(read_events_since(table,
                    IF IsSome(runtime_state.last_projected_seq)
                    THEN Unwrap(runtime_state.last_projected_seq) ELSE 0),
                catch_up_projection_from_store_locked(table, runtime_state).steps)

\* a replay that starts after global_seq 1
initialize_from_event_log_since_one(table) ==
    project_records_with_monotonic_guard(DefaultState, read_events_since(table, 1))

\* AppRuntime::initialize_from_event_log
initialize_from_event_log(table) ==
    project_records_with_monotonic_guard(DefaultState, read_ordered_events(table))

\* a from_store that opens the facade on what could be replayed
from_store_partial(table) ==
    [ok |-> TRUE, state |-> initialize_from_event_log(table).state]

\* AppRuntime::from_store: the new facade's state, or the error
from_store(table) ==
    LET initialized == initialize_from_event_log(table)
    IN  IF initialized.result.ok
        THEN [ok |-> TRUE, state |-> initialized.state]
        ELSE [ok |-> FALSE, error |-> initialized.result.error]

\* the tail of record_signature_snapshot: append the observed event at the
\* resolved system, then catch up
RecordAtSystem(table, runtime_state, system_id, attribution_character_id, entries, now) ==
    LET stored ==
            append_system_signatures_observed_event_at(table,
                [system_id |-> system_id,
                 snapshot_id |-> Uuid_now_v7(table, 2),
                 entries |-> entries,
                 observed_at |-> now,
                 attribution_character_id |-> attribution_character_id,
                 source |-> "Manual"],
                now)
        caught_up == catch_up_projection_from_store_locked(stored.table, runtime_state)
    IN  IF ~stored.result.ok
        THEN [table |-> stored.table, state |-> runtime_state,
              result |-> [ok |-> FALSE, error |-> "Store"]]
        ELSE IF ~caught_up.result.ok
        THEN [table |-> stored.table, state |-> caught_up.state,
              result |-> [ok |-> FALSE, error |-> caught_up.result.error]]
        ELSE [table |-> stored.table, state |-> caught_up.state,
              result |-> [ok |-> TRUE,
                          outcome |-> [kind |-> "Recorded", system_id |-> system_id]]]

SignatureParseFailure(table, runtime_state, parsed) ==
    [table |-> table, state |-> runtime_state,
     result |-> [ok |-> FALSE, error |-> "SignatureParse", cause |-> parsed.error]]

NeedsConfirmationOutcome(table, runtime_state, resolution) ==
    [table |-> table, state |-> runtime_state,
     result |-> [ok |-> TRUE,
                 outcome |-> [kind |-> "NeedsConfirmation",
                              focused_system_id |-> resolution.focused_system_id,
                              character_system_id |-> resolution.character_system_id,
                              character_id |-> resolution.character_id]]]

\* a recording that writes the snapshot at the focused system before it
\* answers NeedsConfirmation
record_signature_snapshot_writes_before_gate(table, runtime_state, context, snapshot_text, now) ==
    LET parsed == parse_signature_snapshot(snapshot_text)
        resolution == resolve_signature_target_system(runtime_state.projection, context)
        recorded == RecordAtSystem(table, runtime_state,
                                   IF context.kind = "Explicit" THEN context.system_id
                                   ELSE context.focused_system_id,
                                   context.attribution_character_id, parsed.entries, now)
    IN  IF ~parsed.ok THEN SignatureParseFailure(table, runtime_state, parsed)
        ELSE IF resolution.kind = "NeedsConfirmation"
        THEN NeedsConfirmationOutcome(recorded.table, recorded.state, resolution)
        ELSE recorded

\* a recording that takes the lock and writes an empty snapshot before it
\* looks at the parse result
record_signature_snapshot_parses_late(table, runtime_state, context, snapshot_text, now) ==
    LET parsed == parse_signature_snapshot(snapshot_text)
        resolution == resolve_signature_target_system(runtime_state.projection, context)
    IN  IF resolution.kind = "NeedsConfirmation"
        THEN NeedsConfirmationOutcome(table, runtime_state, resolution)
        ELSE LET recorded == RecordAtSystem(table, runtime_state, resolution.system_id,
                                            resolution.attribution_character_id,
                                            IF parsed.ok THEN parsed.entries ELSE << >>, now)
             IN  IF parsed.ok THEN recorded
                 ELSE SignatureParseFailure(recorded.table, recorded.state, parsed)

\* AppRuntime::record_signature_snapshot: the table and the state after the
\* call, and the call's result
record_signature_snapshot(table, runtime_state, context, snapshot_text, now) ==
    LET parsed == parse_signature_snapshot(snapshot_text)
        resolution == resolve_signature_target_system(runtime_state.projection, context)
    IN  IF ~parsed.ok THEN SignatureParseFailure(table, runtime_state, parsed)
        ELSE IF resolution.kind = "NeedsConfirmation"
        THEN NeedsConfirmationOutcome(table, runtime_state, resolution)
        ELSE RecordAtSystem(table, runtime_state, resolution.system_id,
                            resolution.attribution_character_id, parsed.entries, now)

(***************************************************************************)
(* jaytripper_esi: the location ingestor                                   *)
(***************************************************************************)
Min(a, b) == IF a <= b THEN a ELSE b

\* an addition that wraps around at the ceiling
wrapping_add_one(n) == (n + 1) % (FailuresMax + 1)

\* u32::saturating_add(1); FailuresMax stands for u32::MAX
saturating_add_one(n) == IF n >= FailuresMax THEN FailuresMax ELSE n + 1

\* attempts.saturating_sub(1)
saturating_sub_one(n) == IF n = 0 THEN 0 ELSE n - 1

\* initial_ms.saturating_mul(1_u128 << exponent).min(max_ms): the product is
\* exact in 128 bits for every Duration; it is computed here by doublings that
\* stop once max_ms is reached, the numbers of the model being 32 bits wide
RECURSIVE ShiftedMin(_, _, _)
ShiftedMin(value_ms, exponent, max_ms) ==
    IF value_ms >= max_ms THEN max_ms
    ELSE IF exponent = 0 THEN value_ms
    ELSE ShiftedMin(2 * value_ms, exponent - 1, max_ms)

\* a backoff whose exponent is the number of attempts
exponential_backoff_from_attempts(attempts, initial, max) ==
    ShiftedMin(initial, Min(attempts, 31), max)

\* exponential_backoff, durations in whole milliseconds
exponential_backoff(attempts, initial, max) ==
    LET exponent == Min(saturating_sub_one(attempts), 31)
    IN  ShiftedMin(initial, exponent, max)

\* LocationPollConfig::default(), in milliseconds; the jitter factor in tenths
DefaultPollConfig ==
    [base_interval |-> 5000, jitter_factor |-> 2,
     api_failure_backoff_initial |-> 1000, api_failure_backoff_max |-> 30000]

\* LocationIngestor::with_clock; pc is the place run_until_shutdown is at
NewIngestor(config) ==
    [pc |-> "new",
     config |-> config,
     last_location |-> None,
     api_consecutive_failures |-> 0,
     observing |-> None,
     wait |-> None]

\* LocationIngestor::next_api_failure_delay
next_api_failure_delay(self) ==
    exponential_backoff(self.api_consecutive_failures,
                        self.config.api_failure_backoff_initial,
                        self.config.api_failure_backoff_max)

\* LocationIngestor::next_success_delay: the base interval, jittered by the
\* ingestor's generator
next_success_delay(self) == [base |-> self.config.base_interval, jittered |-> TRUE]

\* LocationIngestor::record_success
record_success(self) == [self EXCEPT !.api_consecutive_failures = 0]

\* a failure count that also forgets where the character was last seen
record_api_failure_forgetting(self) ==
    [self EXCEPT !.api_consecutive_failures = saturating_add_one(@),
                 !.last_location = None]

\* LocationIngestor::record_api_failure
record_api_failure(self) ==
    [self EXCEPT !.api_consecutive_failures = saturating_add_one(@)]

\* an ingestor that emits on any change of the location
should_emit_on_any_change(last_location, location) ==
    ~IsSome(last_location) \/ Unwrap(last_location) # location

\* observe_location's should_emit_event
should_emit_event(last_location, location) ==
    IF IsSome(last_location)
    THEN Unwrap(last_location).solar_system_id # location.solar_system_id
    ELSE TRUE

\* the MovementEvent observe_location builds
ObservedMovement(self, character_id, location, observed_at) ==
    [character_id |-> character_id,
     from_system_id |-> IF IsSome(self.last_location)
                        THEN Some(Unwrap(self.last_location).solar_system_id)
                        ELSE None,
     to_system_id |-> location.solar_system_id,
     observed_at |-> observed_at,
     source |-> "Esi"]

\* the SSO client before any call: no session tokens hydrated
NewSsoClient == [hydrated |-> None, pending |-> None]

\* no ManagedEsiClient yet: connect has not returned one.  task is where
\* refresh_loop stands, marking the reason mark_needs_reauth has still to
\* store, state_lock the holder of the async mutex around the auth service,
\* caller where a get_current_location call stands, calls the history of such
\* calls, elapsed the time slept since the clock was first read
NewManaged ==
    [connected |-> FALSE, dropped |-> FALSE,
     needs_reauth |-> FALSE, reauth_reason |-> None,
     state_lock |-> "free",
     task |-> "none", wait |-> 0, elapsed |-> 0, marking |-> None,
     delays |-> 0, ensures |-> 0, last_outcome |-> "none",
     caller |-> "idle", calls |-> << >>]

\* watch::channel(initial): the receiver has seen the initial value; at_pc and
\* at_polls record where the ingestor was when the value became true
watch_channel(initial) ==
    [value |-> initial, version |-> 0, seen |-> 0, closed |-> FALSE,
     at_pc |-> IF initial THEN "new" ELSE "", at_polls |-> 0]

\* a receiver that never reads true
borrow_never(shutdown_rx) == FALSE

\* *shutdown_rx.borrow()
borrow(shutdown_rx) == shutdown_rx.value

\* shutdown_rx.changed() is ready: a value not yet seen, or the sender dropped
changed_ready(shutdown_rx) ==
    shutdown_rx.version # shutdown_rx.seen \/ shutdown_rx.closed

\* the result of a ready shutdown_rx.changed() is an error
changed_is_err(shutdown_rx) ==
    shutdown_rx.closed /\ shutdown_rx.version = shutdown_rx.seen

\* the receiver after a ready changed(): the value is marked seen
changed_seen(shutdown_rx) == [shutdown_rx EXCEPT !.seen = shutdown_rx.version]

\* shutdown_signaled(changed, &shutdown_rx)
shutdown_signaled(shutdown_rx) == changed_is_err(shutdown_rx) \/ borrow(shutdown_rx)

(***************************************************************************)
(* Inputs                                                                  *)
(***************************************************************************)
Tasks == {"t1", "t2"}

\* Timestamp::now() readings
ClockReadings == {7}

\* the observations the sinks are given: first sightings on a millisecond
\* boundary, later moves between two boundaries
MovementEvents ==
    { [character_id |-> c, from_system_id |-> o.from, to_system_id |-> s,
       observed_at |-> o.at, source |-> "Esi"] :
        c \in CharacterIds, s \in SolarSystemIds,
        o \in {[from |-> None, at |-> 2], [from |-> Some(1), at |-> 5]} }

SnapshotContexts ==
    { [kind |-> "Auto", focused_system_id |-> s, attribution_character_id |-> Some(1)] :
        s \in SolarSystemIds }
    \cup
    { [kind |-> "Explicit", system_id |-> s, attribution_character_id |-> Some(1)] :
        s \in SolarSystemIds }
    \cup
    { [kind |-> "Auto", focused_system_id |-> 1, attribution_character_id |-> None] }

(***************************************************************************)
(* The facade as a state machine: movement sinks on concurrent tasks,      *)
(* signature recordings, and fresh facades opened on the same store        *)
(***************************************************************************)
Idle == [pc |-> "idle"]

\* a facade on an empty store
AppInit ==
    /\ snapshots = << >>
    /\ event_log = {}
    /\ state = DefaultState
    /\ emit = [t \in Tasks |-> Idle]
    /\ appended = << >>
    /\ applied = << >>

\* no ingestor running and no session stored
EsiInit ==
    /\ ingestor = NewIngestor(DefaultPollConfig)
    /\ shutdown = watch_channel(FALSE)
    /\ polls = << >>
    /\ token_store = EmptyMap
    /\ sso_client = NewSsoClient
    /\ managed = NewManaged

Init ==
    /\ AppInit
    /\ EsiInit
    /\ last_step = [kind |-> "init"]

\* AppMovementSink::emit_movement up to its first suspension after the append:
\* self.app.store().append_movement_event(&event).await?
EmitAppend(t, event, now) ==
    /\ emit[t].pc = "idle"
    /\ Cardinality(event_log) < MaxEvents
    /\ LET stored == append_movement_event_at(event_log, event, now)
       IN  /\ event_log' = stored.table
           /\ IF stored.result.ok
              THEN /\ emit' = [emit EXCEPT ![t] =
                                [pc |-> "appended", event |-> event,
                                 global_seq |-> stored.result.global_seq]]
                   /\ last_step' = [kind |-> "emit_append"]
              ELSE /\ emit' = emit
                   /\ last_step' = [kind |-> "emit_movement",
                                    event |-> event, global_seq |-> None,
                                    result |-> [ok |-> FALSE, error |-> "Store"]]
    /\ UNCHANGED << state, appended, snapshots, applied, esi_vars >>

\* the rest of emit_movement: self.app.catch_up_projection_from_store().await,
\* which takes the state mutex, reads the store and runs the guard
EmitCatchUp(t) ==
    /\ emit[t].pc = "appended"
    /\ \E caught_up \in { catch_up_projection_from_store_locked(event_log, state) } :
           /\ state' = caught_up.state
           /\ last_step' = [kind |-> "emit_movement",
                            event |-> emit[t].event,
                            global_seq |-> Some(emit[t].global_seq),
                            result |-> caught_up.result]
    /\ applied' = applied \o AppliedBy(event_log, state)
    /\ emit' = [emit EXCEPT ![t] = Idle]
    /\ UNCHANGED << event_log, appended, snapshots, esi_vars >>

\* AppRuntime::record_signature_snapshot, the state mutex held from the
\* resolution to the end of the catch-up
RecordSignatureSnapshot(context, snapshot_text, now) ==
    \E call \in { record_signature_snapshot(event_log, state, context, snapshot_text, now) } :
        /\ call.table # event_log => Cardinality(event_log) < MaxEvents
        /\ event_log' = call.table
        /\ state' = call.state
        /\ applied' = IF event_log' = event_log THEN applied
                       ELSE applied \o AppliedBy(event_log', state)
        /\ last_step' = [kind |-> "record_signature_snapshot", context |-> context,
                         snapshot_text |-> snapshot_text, result |-> call.result]
        /\ UNCHANGED << emit, appended, snapshots, esi_vars >>

\* AppRuntime::from_store on the same store: a fresh facade
FromStore ==
    /\ last_step' = [kind |-> "from_store", result |-> from_store(event_log)]
    /\ UNCHANGED << event_log, state, emit, appended, snapshots, applied, esi_vars >>

Next ==
    \/ \E t \in Tasks, event \in MovementEvents, now \in ClockReadings :
            EmitAppend(t, event, now)
    \/ \E t \in Tasks : EmitCatchUp(t)
    \/ \E context \in SnapshotContexts, text \in SnapshotTexts, now \in ClockReadings :
            RecordSignatureSnapshot(context, text, now)
    \/ FromStore

Spec == Init /\ [][Next]_vars

(***************************************************************************)
(* Properties of the facade                                                *)
(***************************************************************************)
\* every emit_movement that appended has also finished its catch-up
AllEmitsReturned == \A t \in Tasks : emit[t].pc = "idle"

\* the projection has caught up with the store
CaughtUpWithStore ==
    state.last_projected_seq =
        (IF event_log = {} THEN None ELSE Some(SetMax({ r.global_seq : r \in event_log })))

\* the character_moved rows attributed to a character
MovesOf(c) ==
    { r \in event_log : /\ r.event_type = CHARACTER_MOVED_EVENT_TYPE
                        /\ r.attribution_character_id = Some(c) }

LatestOf(rows) == CHOOSE r \in rows : \A o \in rows : o.global_seq <= r.global_seq

\* C2: replay equivalence.  Once every emission and every recording on the
\* live facade has returned, a fresh facade opened on the same store comes up
\* with the projection and the last_projected_seq of the live facade.
ReplayEquivalence ==
    (last_step.kind = "from_store" /\ AllEmitsReturned)
        => /\ last_step.result.ok
           /\ last_step.result.state = state

ReplayEquivalenceWitness ==
    /\ last_step.kind = "from_store"
    /\ AllEmitsReturned
    /\ last_step.result.ok
    /\ last_step.result.state = state
    /\ \E r \in event_log : r.event_type = CHARACTER_MOVED_EVENT_TYPE
    /\ \E r \in event_log : r.event_type = SYSTEM_SIGNATURES_OBSERVED_EVENT_TYPE

\* C4: movement transition rule.  When the projection has caught up with the
\* store, a character is in the projection exactly when the log holds a
\* character_moved event attributed to it, and then its current system and
\* its last movement time are the to_system_id and the occurred_at of the
\* one with the highest global_seq, whatever that event's from_system_id and
\* whatever the order of the occurred_at values.
MovementTransitionRule ==
    CaughtUpWithStore =>
        \A c \in CharacterIds :
            IF MovesOf(c) = {}
            THEN c \notin DOMAIN state.projection.characters
            ELSE /\ c \in DOMAIN state.projection.characters
                 /\ LET latest == EventRecord_try_from(LatestOf(MovesOf(c)))
                        location == state.projection.characters[c]
                    IN  /\ location.current_system_id
                            = latest.envelope.payload_json.to_system_id
                        /\ location.last_movement_observed_at
                            = latest.envelope.occurred_at

MovementTransitionRuleWitness ==
    /\ CaughtUpWithStore
    /\ \E c \in CharacterIds :
        \E earlier, later \in MovesOf(c) :
            /\ later = LatestOf(MovesOf(c))
            /\ earlier.global_seq < later.global_seq
            /\ earlier.payload_json.to_system_id # later.payload_json.to_system_id
            /\ later.payload_json.from_system_id
                # Some(earlier.payload_json.to_system_id)
            /\ later.occurred_at_epoch_millis < earlier.occurred_at_epoch_millis
            /\ state.projection.characters[c].current_system_id
                = later.payload_json.to_system_id

\* C7: sink emission is reflected on return.  When emit_movement returns Ok,
\* the log holds exactly one row with the global_seq of its append, that row
\* is the character_moved event of the movement, and last_projected_seq is
\* at least that global_seq.
EmitReflectedOnReturn ==
    (last_step.kind = "emit_movement" /\ last_step.result.ok)
        => LET seq == Unwrap(last_step.global_seq)
               event == last_step.event
               rows == { r \in event_log : r.global_seq = seq }
           IN  /\ Cardinality(rows) = 1
               /\ \A r \in rows :
                    /\ r.event_type = CHARACTER_MOVED_EVENT_TYPE
                    /\ r.attribution_character_id = Some(event.character_id)
                    /\ r.stream_key = character_stream_key(event.character_id)
                    /\ r.payload_json = as_character_moved_payload(event)
                    /\ r.occurred_at_epoch_millis = as_epoch_millis(event.observed_at)
               /\ IsSome(state.last_projected_seq)
               /\ Unwrap(state.last_projected_seq) >= seq

EmitReflectedOnReturnWitness ==
    /\ last_step.kind = "emit_movement"
    /\ last_step.result.ok
    /\ \E t \in Tasks : emit[t].pc = "appended"
    /\ Unwrap(state.last_projected_seq) > Unwrap(last_step.global_seq)

\* C8: the confirmation gate has no side effects.  A record_signature_snapshot
\* that returns NeedsConfirmation appends nothing and leaves the projection
\* and last_projected_seq as they were; the outcome carries the focused
\* system, the character's projected system and the character id.
ConfirmationGateNoSideEffects ==
    [][ (/\ last_step'.kind = "record_signature_snapshot"
         /\ last_step'.result.ok
         /\ last_step'.result.outcome.kind = "NeedsConfirmation")
        => LET context == last_step'.context
               outcome == last_step'.result.outcome
           IN  /\ event_log' = event_log
               /\ state' = state
               /\ outcome.focused_system_id = context.focused_system_id
               /\ outcome.character_id = Unwrap(context.attribution_character_id)
               /\ outcome.character_system_id =
                    state.projection.characters[outcome.character_id].current_system_id
      ]_vars

ConfirmationGateWitness ==
    /\ last_step.kind = "record_signature_snapshot"
    /\ last_step.result.ok
    /\ last_step.result.outcome.kind = "NeedsConfirmation"
    /\ event_log # {}
    /\ last_step.result.outcome.character_system_id
        # last_step.result.outcome.focused_system_id

\* C10: a parse failure writes nothing.  When the snapshot text does not
\* parse, record_signature_snapshot returns the parse error, appends nothing
\* and leaves the projection and last_projected_seq as they were, whatever
\* the context.
ParseFailureWritesNothing ==
    [][ (/\ last_step'.kind = "record_signature_snapshot"
         /\ ~parse_signature_snapshot(last_step'.snapshot_text).ok)
        => /\ ~last_step'.result.ok
           /\ last_step'.result.error = "SignatureParse"
           /\ last_step'.result.cause
                = parse_signature_snapshot(last_step'.snapshot_text).error
           /\ event_log' = event_log
           /\ state' = state
      ]_vars

ParseFailureWitness ==
    /\ last_step.kind = "record_signature_snapshot"
    /\ ~last_step.result.ok
    /\ last_step.result.error = "SignatureParse"
    /\ last_step.context.kind = "Explicit"
    /\ event_log # {}
    /\ resolve_signature_target_system(state.projection, last_step.context).kind
        = "Record"

(***************************************************************************)
(* The guard and the resolver called directly, as the unit tests call      *)
(* them, on records built by hand                                          *)
(***************************************************************************)
\* tests::ts, with the epoch moved to 0
ts(epoch) == Unwrap(from_epoch_millis(epoch))

\* tests::movement_record
movement_record(seq, character_id, from_system_id, to_system_id) ==
    [global_seq |-> seq,
     envelope |->
        [event_id |-> << "evt", seq >>,
         event_type |-> CHARACTER_MOVED_EVENT_TYPE,
         schema_version |-> CHARACTER_MOVED_SCHEMA_VERSION,
         stream_key |-> character_stream_key(character_id),
         occurred_at |-> ts(seq),
         recorded_at |-> ts(seq),
         attribution_character_id |-> Some(character_id),
         source |-> "Esi",
         payload_json |-> [from_system_id |-> from_system_id,
                           to_system_id |-> to_system_id]]]

\* a character_moved record of a schema version the projector does not know
unsupported_record(seq) ==
    [movement_record(seq, 1, None, 1) EXCEPT
        !.envelope.schema_version = CHARACTER_MOVED_SCHEMA_VERSION + 1]

GuardRecords ==
    { movement_record(seq, 1, None, to_system_id) :
        seq \in 1..MaxSeq, to_system_id \in SolarSystemIds }
    \cup { unsupported_record(MaxSeq) }

\* batches in any order and with any overlap
GuardBatches == UNION { [1..n -> GuardRecords] : n \in 0..MaxBatchLen }

ResolverContexts ==
    { [kind |-> "Auto", focused_system_id |-> s, attribution_character_id |-> a] :
        s \in SolarSystemIds, a \in {None, Some(1), Some(2)} }
    \cup
    { [kind |-> "Explicit", system_id |-> s, attribution_character_id |-> a] :
        s \in SolarSystemIds, a \in {None, Some(1), Some(2)} }

\* project_records_with_monotonic_guard(&mut state, &batch)
GuardApply(batch) ==
    LET run == project_records_with_monotonic_guard(state, batch)
    IN  /\ state' = run.state
        /\ last_step' = [kind |-> "guard", records |-> batch, of |-> batch,
                         before |-> state, steps |-> run.steps, result |-> run.result]
        /\ UNCHANGED << event_log, emit, appended, snapshots, applied, esi_vars >>

\* the guard called again on the first k records of the batch it was last
\* given; k = 0 is a catch-up that read nothing new
GuardReapplyPrefix(k) ==
    /\ last_step.kind \in {"guard", "guard_reapply"}
    /\ k \in 0..Len(last_step.of)
    /\ LET prefix == SubSeq(last_step.of, 1, k)
           run == project_records_with_monotonic_guard(state, prefix)
       IN  /\ state' = run.state
           /\ last_step' = [kind |-> "guard_reapply", records |-> prefix,
                            of |-> last_step.of, before |-> state,
                            steps |-> run.steps, result |-> run.result]
    /\ UNCHANGED << event_log, emit, appended, snapshots, applied, esi_vars >>

\* resolve_signature_target_system(&state.projection, context)
Resolve(context) ==
    /\ last_step' = [kind |-> "resolve", context |-> context,
                     resolution |->
                        resolve_signature_target_system(state.projection, context)]
    /\ UNCHANGED << event_log, state, emit, appended, snapshots, applied, esi_vars >>

NextDirect ==
    \/ \E batch \in GuardBatches : GuardApply(batch)
    \/ \E k \in 0..MaxBatchLen : GuardReapplyPrefix(k)
    \/ \E context \in ResolverContexts : Resolve(context)

SpecDirect == Init /\ [][NextDirect]_vars

\* last_projected_seq a is not above b
LpsLeq(a, b) == ~IsSome(a) \/ (IsSome(b) /\ Unwrap(a) <= Unwrap(b))

StrictlyAscending(records) ==
    \A i, j \in DOMAIN records : i < j => records[i].global_seq < records[j].global_seq

GuardRan == last_step.kind \in {"guard", "guard_reapply"}

\* the state the guard had before its i-th iteration of the last call
StateBeforeIteration(i) ==
    IF i = 1 THEN last_step.before ELSE last_step.steps[i - 1].state

\* C1: the guard is monotonic.  For batches in any order and with any
\* overlap, last_projected_seq never decreases from one record to the next or
\* from one call to the next, and a record whose global_seq is at most
\* last_projected_seq changes neither the projection nor last_projected_seq.
MonotonicGuard ==
    GuardRan =>
        /\ \A i \in DOMAIN last_step.steps :
            LET previous == StateBeforeIteration(i)
                record == last_step.records[i]
            IN  /\ LpsLeq(previous.last_projected_seq,
                          last_step.steps[i].state.last_projected_seq)
                /\ (/\ IsSome(previous.last_projected_seq)
                    /\ record.global_seq <= Unwrap(previous.last_projected_seq))
                   => last_step.steps[i].state = previous
        /\ state = StateBeforeIteration(Len(last_step.steps) + 1)
        /\ LpsLeq(last_step.before.last_projected_seq, state.last_projected_seq)

MonotonicGuardWitness ==
    /\ GuardRan
    /\ IsSome(last_step.before.last_projected_seq)
    /\ \E i \in DOMAIN last_step.steps :
        /\ i >= 2
        /\ last_step.steps[i - 1].outcome = "applied"
        /\ last_step.steps[i].outcome = "skipped"
        /\ last_step.records[i].global_seq < last_step.records[i - 1].global_seq
        /\ last_step.records[i].envelope.payload_json.to_system_id
            # state.projection.characters[1].current_system_id

\* C3: the guard is idempotent.  Applying an ascending batch and then
\* applying any prefix of it again, the empty prefix of a catch-up with
\* nothing new included, leaves the projection and last_projected_seq as the
\* first application left them.
IdempotentGuard ==
    (last_step.kind = "guard_reapply" /\ StrictlyAscending(last_step.of))
        => state = last_step.before

IdempotentGuardWitness ==
    /\ last_step.kind = "guard_reapply"
    /\ StrictlyAscending(last_step.of)
    /\ Len(last_step.of) >= 2
    /\ Len(last_step.records) >= 1
    /\ Len(last_step.records) < Len(last_step.of)
    /\ \A i \in DOMAIN last_step.steps : last_step.steps[i].outcome = "skipped"
    /\ state.last_projected_seq = Some(last_step.of[Len(last_step.of)].global_seq)
    /\ last_step.records[1].envelope.payload_json.to_system_id
        # state.projection.characters[1].current_system_id

\* C9: the resolver's decision.  The resolver answers NeedsConfirmation
\* exactly when the context is Auto, names a character, the projection has a
\* current system for that character, and that system is not the focused one;
\* in every other case it answers Record, at system_id for Explicit and at
\* focused_system_id for Auto, with the attribution it was given.
ResolverDecision ==
    last_step.kind = "resolve" =>
        LET context == last_step.context
            resolution == last_step.resolution
            characters == state.projection.characters
            attribution == context.attribution_character_id
            gated == /\ context.kind = "Auto"
                     /\ IsSome(attribution)
                     /\ Unwrap(attribution) \in DOMAIN characters
                     /\ characters[Unwrap(attribution)].current_system_id
                            # context.focused_system_id
        IN  IF gated
            THEN resolution =
                    [kind |-> "NeedsConfirmation",
                     focused_system_id |-> context.focused_system_id,
                     character_system_id |->
                        characters[Unwrap(attribution)].current_system_id,
                     character_id |-> Unwrap(attribution)]
            ELSE resolution =
                    [kind |-> "Record",
                     system_id |-> IF context.kind = "Explicit"
                                   THEN context.system_id
                                   ELSE context.focused_system_id,
                     attribution_character_id |-> attribution]

ResolverDecisionWitness ==
    /\ last_step.kind = "resolve"
    /\ last_step.context.kind = "Auto"
    /\ last_step.resolution.kind = "NeedsConfirmation"
    /\ last_step.resolution.character_system_id
        # last_step.context.focused_system_id
    /\ IsSome(state.last_projected_seq)

(***************************************************************************)
(* The store called directly: appends of the three kinds and the two reads *)
(***************************************************************************)
\* envelopes a caller of append_event builds itself, of an event type the
\* projector does not know; two of them share an event_id
RawEvents ==
    { [event_id |-> << "evt", id >>,
       event_type |-> "future_event",
       schema_version |-> 1,
       stream_key |-> system_stream_key(1),
       occurred_at |-> at,
       recorded_at |-> at + 1,
       attribution_character_id |-> None,
       source |-> "Import",
       payload_json |-> [hello |-> "world"]] :
        id \in {"a", "b"}, at \in {2, 3} }

SignaturesEvents ==
    { [system_id |-> s,
       snapshot_id |-> << "snapshot", s >>,
       entries |-> parse_signature_snapshot(<< LineAbc10 >>).entries,
       observed_at |-> 5,
       attribution_character_id |-> Some(1),
       source |-> "Manual"] : s \in SolarSystemIds }

\* the history of successful appends after one more call of append_event
WithAppend(history, event, result) ==
    IF result.ok
    THEN Append(history, [global_seq |-> result.global_seq, event |-> event])
    ELSE history

\* EventLogStore::append_event
StoreAppendEvent(event) ==
    LET stored == append_event(event_log, event)
    IN  /\ stored.table # event_log => Cardinality(event_log) < MaxEvents
        /\ event_log' = stored.table
        /\ appended' = WithAppend(appended, event, stored.result)
        /\ last_step' = [kind |-> "append_event", event |-> event,
                         result |-> stored.result]
        /\ UNCHANGED << state, emit, snapshots, applied, esi_vars >>

\* EventLogStore::append_movement_event
StoreAppendMovementEvent(event, now) ==
    LET stored == append_movement_event_at(event_log, event, now)
        new_event == MovementNewEvent(event_log, event, now)
    IN  /\ stored.table # event_log => Cardinality(event_log) < MaxEvents
        /\ event_log' = stored.table
        /\ appended' = WithAppend(appended, new_event, stored.result)
        /\ last_step' = [kind |-> "append_movement_event", event |-> new_event,
                         result |-> stored.result]
        /\ UNCHANGED << state, emit, snapshots, applied, esi_vars >>

\* EventLogStore::append_system_signatures_observed_event
StoreAppendSignaturesEvent(event, now) ==
    LET stored == append_system_signatures_observed_event_at(event_log, event, now)
        new_event == SignaturesNewEvent(event_log, event, now)
    IN  /\ stored.table # event_log => Cardinality(event_log) < MaxEvents
        /\ event_log' = stored.table
        /\ appended' = WithAppend(appended, new_event, stored.result)
        /\ last_step' = [kind |-> "append_system_signatures_observed_event",
                         event |-> new_event, result |-> stored.result]
        /\ UNCHANGED << state, emit, snapshots, applied, esi_vars >>

\* EventLogStore::read_ordered_events
StoreReadOrdered ==
    /\ last_step' = [kind |-> "read_ordered_events",
                     records |-> read_ordered_events(event_log)]
    /\ UNCHANGED << event_log, state, emit, appended, snapshots, applied, esi_vars >>

\* EventLogStore::read_events_since
StoreReadSince(since_seq) ==
    /\ last_step' = [kind |-> "read_events_since", since_seq |-> since_seq,
                     records |-> read_events_since(event_log, since_seq)]
    /\ UNCHANGED << event_log, state, emit, appended, snapshots, applied, esi_vars >>

NextStore ==
    \/ \E event \in RawEvents : StoreAppendEvent(event)
    \/ \E event \in MovementEvents, now \in ClockReadings :
            StoreAppendMovementEvent(event, now)
    \/ \E event \in SignaturesEvents, now \in ClockReadings :
            StoreAppendSignaturesEvent(event, now)
    \/ StoreReadOrdered
    \/ \E since_seq \in 0..MaxEvents : StoreReadSince(since_seq)

SpecStore == Init /\ [][NextStore]_vars

\* C5: append ordering.  Of two successful appends the later one returns the
\* greater global_seq, whichever of the three append functions made them, and
\* no two rows of the log share a global_seq.
AppendOrdering ==
    /\ \A i, j \in DOMAIN appended :
            i < j => appended[i].global_seq < appended[j].global_seq
    /\ \A r1, r2 \in event_log : r1.global_seq = r2.global_seq => r1 = r2
    /\ \A i \in DOMAIN appended :
            \E r \in event_log : r.global_seq = appended[i].global_seq

AppendOrderingWitness ==
    /\ Len(appended) >= 2
    /\ appended[1].event.event_type # appended[2].event.event_type
    /\ last_step.kind = "append_event"
    /\ ~last_step.result.ok

\* the envelope the log gives back for an appended envelope: the two
\* timestamps cut to whole milliseconds, every other field as it was
AtMillisecondResolution(event) ==
    [event EXCEPT
        !.occurred_at = Unwrap(from_epoch_millis(as_epoch_millis(@))),
        !.recorded_at = Unwrap(from_epoch_millis(as_epoch_millis(@)))]

\* what a read shows of the successful appends so far: ascending order, at
\* most one record per global_seq, each appended event present exactly when
\* the read's lower bound is below its global_seq, and with the envelope
\* that Expected gives for the one appended
ReadShowsAppends(Expected(_)) ==
    last_step.kind \in {"read_ordered_events", "read_events_since"} =>
        LET records == last_step.records
            since_seq == IF last_step.kind = "read_events_since"
                         THEN last_step.since_seq ELSE 0
        IN  /\ StrictlyAscending(records)
            /\ \A k \in DOMAIN appended :
                LET found == { i \in DOMAIN records :
                                records[i].global_seq = appended[k].global_seq }
                IN  /\ Cardinality(found) = (IF since_seq < appended[k].global_seq
                                             THEN 1 ELSE 0)
                    /\ \A i \in found :
                            records[i].envelope = Expected(appended[k].event)

\* C6: append/read visibility.  After append_event(e) returned seq, every
\* later read_ordered_events holds exactly one record of that global_seq, in
\* ascending order, with an envelope equal to e, and read_events_since(s)
\* holds it exactly when s < seq.
AppendReadVisibility == ReadShowsAppends(LAMBDA event : event)

\* what the reads do show: the same, with the envelope's occurred_at and
\* recorded_at cut to whole milliseconds
ReadShowsStoredEnvelope == ReadShowsAppends(AtMillisecondResolution)

\* a read that follows an append made with a timestamp between two
\* milliseconds
ReadAfterSubMillisecondAppend ==
    /\ last_step.kind = "read_events_since"
    /\ Len(appended) >= 2
    /\ last_step.since_seq = appended[1].global_seq
    /\ Len(last_step.records) = Len(appended) - 1
    /\ \E k \in DOMAIN appended :
        /\ appended[k].global_seq > last_step.since_seq
        /\ AtMillisecondResolution(appended[k].event) # appended[k].event

(***************************************************************************)
(* Snapshots merged directly into the projection: the signatures reducer   *)
(* called on hand-built payloads                                           *)
(***************************************************************************)
SigAbc == SubSeq(LineAbc10, 1, 7)

SigXyz == SubSeq(LineXyz, 1, 7)

\* SignatureEntry { signature_id, group, site_type: None, name: None, scan_percent }
signature_entry(signature_id, scan_percent) ==
    [signature_id |-> signature_id,
     group |-> << "G" >>,
     site_type |-> None,
     name |-> None,
     scan_percent |-> scan_percent]

\* the entries of the snapshots: a signature with and without scan_percent,
\* with a lower later value, listed twice, and next to another signature
SnapshotEntries ==
    { << >>,
      << signature_entry(SigAbc, None) >>,
      << signature_entry(SigAbc, Some(500)) >>,
      << signature_entry(SigAbc, Some(1000)) >>,
      << signature_entry(SigXyz, Some(500)) >>,
      << signature_entry(SigAbc, Some(1000)), signature_entry(SigXyz, None) >>,
      << signature_entry(SigAbc, Some(500)), signature_entry(SigAbc, None) >>,
      << signature_entry(SigAbc, Some(1000)), signature_entry(SigAbc, Some(500)) >> }

\* ProjectionReducer<SystemSignaturesObservedPayload>::project called on the
\* live projection
ApplySnapshot(system_id, entries) ==
    /\ Len(snapshots) < MaxSnapshots
    /\ LET nth == Len(snapshots) + 1
           payload == [system_id |-> system_id,
                       snapshot_id |-> << "snapshot", nth >>,
                       entries |-> entries]
           metadata == [global_seq |-> nth, occurred_at |-> ts(nth),
                        event_id |-> << "evt", nth >>, source |-> "Manual"]
       IN  /\ state' = [state EXCEPT !.projection =
                            ProjectSystemSignaturesObserved(@, payload, metadata)]
           /\ snapshots' = Append(snapshots, payload)
           /\ last_step' = [kind |-> "apply_snapshot", payload |-> payload]
    /\ UNCHANGED << event_log, emit, appended, applied, esi_vars >>

NextMerge ==
    \E system_id \in SolarSystemIds, entries \in SnapshotEntries :
        ApplySnapshot(system_id, entries)

SpecMerge == Init /\ [][NextMerge]_vars

\* every entry applied to a system for a signature, in the order applied
RECURSIVE EntriesApplied(_, _, _)
EntriesApplied(history, system_id, signature_id) ==
    IF history = << >> THEN << >>
    ELSE LET payload == Head(history)
             here == IF payload.system_id = system_id
                     THEN SelectSeq(payload.entries,
                                    LAMBDA e : e.signature_id = signature_id)
                     ELSE << >>
         IN  here \o EntriesApplied(Tail(history), system_id, signature_id)

\* the scan_percent values among entries, in order
PercentsOf(entries) ==
    LET carrying == SelectSeq(entries, LAMBDA e : IsSome(e.scan_percent))
    IN  [i \in 1..Len(carrying) |-> Unwrap(carrying[i].scan_percent)]

\* the signatures projected for a system
ProjectedSignatures(system_id) ==
    IF system_id \in DOMAIN state.projection.signatures_by_system
    THEN state.projection.signatures_by_system[system_id].signatures_by_id
    ELSE EmptyMap

\* the snapshots of a system that list a signature, as indices of the history
SnapshotsListing(system_id, signature_id) ==
    { i \in DOMAIN snapshots :
        /\ snapshots[i].system_id = system_id
        /\ \E k \in DOMAIN snapshots[i].entries :
                snapshots[i].entries[k].signature_id = signature_id }

\* C11 as the text has it: latest_scan_percent is the scan_percent the
\* signature had in the most recent snapshot that lists it, carried or
\* omitted.
SignatureLatestAsListed ==
    \A system_id \in SolarSystemIds :
        \A signature_id \in DOMAIN ProjectedSignatures(system_id) :
            LET recent == snapshots[SetMax(SnapshotsListing(system_id, signature_id))]
            IN  \E k \in DOMAIN recent.entries :
                    /\ recent.entries[k].signature_id = signature_id
                    /\ ProjectedSignatures(system_id)[signature_id].latest_scan_percent
                        = recent.entries[k].scan_percent

\* C11: signature latest.  After any sequence of snapshots applied to a
\* system, latest_scan_percent of every projected signature is the
\* scan_percent of the most recent entry for it that carries one, and is
\* absent when no entry for it ever carried one.
SignatureLatest ==
    \A system_id \in SolarSystemIds :
        \A signature_id \in DOMAIN ProjectedSignatures(system_id) :
            LET percents == PercentsOf(EntriesApplied(snapshots, system_id, signature_id))
            IN  ProjectedSignatures(system_id)[signature_id].latest_scan_percent
                    = IF percents = << >> THEN None ELSE Some(percents[Len(percents)])

SignatureLatestWitness ==
    /\ last_step.kind = "apply_snapshot"
    /\ Len(snapshots) >= 2
    /\ \E k \in DOMAIN last_step.payload.entries :
        LET entry == last_step.payload.entries[k]
        IN  /\ ~IsSome(entry.scan_percent)
            /\ entry.signature_id = SigAbc
            /\ \A j \in DOMAIN last_step.payload.entries :
                    last_step.payload.entries[j].signature_id = SigAbc
                        => ~IsSome(last_step.payload.entries[j].scan_percent)
    /\ ProjectedSignatures(last_step.payload.system_id)[SigAbc].latest_scan_percent
        = Some(500)

\* C12: signature max.  After any sequence of snapshots applied to a system,
\* highest_scan_percent_seen of every projected signature is the greatest
\* scan_percent any applied entry carried for it, absent when none carried
\* one, also after a later snapshot reported less.
SignatureMax ==
    \A system_id \in SolarSystemIds :
        \A signature_id \in DOMAIN ProjectedSignatures(system_id) :
            LET percents == PercentsOf(EntriesApplied(snapshots, system_id, signature_id))
            IN  ProjectedSignatures(system_id)[signature_id].highest_scan_percent_seen
                    = IF percents = << >> THEN None
                      ELSE Some(SetMax({ percents[i] : i \in DOMAIN percents }))

SignatureMaxWitness ==
    /\ last_step.kind = "apply_snapshot"
    /\ LET signature == ProjectedSignatures(last_step.payload.system_id)[SigAbc]
       IN  /\ last_step.payload.entries = << signature_entry(SigAbc, Some(500)) >>
           /\ signature.latest_scan_percent = Some(500)
           /\ signature.highest_scan_percent_seen = Some(1000)

\* C13: missing flag.  Right after a snapshot for a system is applied, every
\* signature projected for that system has missing_from_latest_snapshot
\* false when the snapshot lists it and true when it does not.
MissingFlag ==
    last_step.kind = "apply_snapshot" =>
        LET payload == last_step.payload
            listed == { payload.entries[k].signature_id : k \in DOMAIN payload.entries }
        IN  /\ listed \subseteq DOMAIN ProjectedSignatures(payload.system_id)
            /\ \A signature_id \in DOMAIN ProjectedSignatures(payload.system_id) :
                ProjectedSignatures(payload.system_id)[signature_id]
                        .missing_from_latest_snapshot
                    = (signature_id \notin listed)

MissingFlagWitness ==
    /\ last_step.kind = "apply_snapshot"
    /\ LET projected == ProjectedSignatures(last_step.payload.system_id)
       IN  /\ DOMAIN projected = {SigAbc, SigXyz}
           /\ projected[SigXyz].missing_from_latest_snapshot
           /\ ~projected[SigAbc].missing_from_latest_snapshot

(***************************************************************************)
(* Replay and catch-up over logs that hold unknown and rejected records    *)
(***************************************************************************)
ReplayKinds ==
    { "moved", "future", "future_moved", "moved_schema", "moved_unattributed",
      "moved_schema_unattributed", "moved_undecodable", "observed_schema" }

\* the envelopes appended to the log: a movement, events of a type the
\* projector does not know, and events of known types it rejects
replay_event(table, kind) ==
    LET known_moved == kind \in { "moved", "moved_schema", "moved_unattributed",
                                  "moved_schema_unattributed", "moved_undecodable" }
        at == ts(Cardinality(table) + 1)
    IN  [event_id |-> Uuid_now_v7(table, 1),
         event_type |->
            IF known_moved THEN CHARACTER_MOVED_EVENT_TYPE
            ELSE IF kind = "observed_schema" THEN SYSTEM_SIGNATURES_OBSERVED_EVENT_TYPE
            ELSE "some_future_event",
         schema_version |->
            IF kind \in { "moved_schema", "moved_schema_unattributed" }
            THEN CHARACTER_MOVED_SCHEMA_VERSION + 1
            ELSE IF kind = "observed_schema"
            THEN SYSTEM_SIGNATURES_OBSERVED_SCHEMA_VERSION + 1
            ELSE 1,
         stream_key |-> IF kind = "observed_schema" THEN system_stream_key(1)
                        ELSE character_stream_key(1),
         occurred_at |-> at,
         recorded_at |-> at,
         attribution_character_id |->
            IF kind \in { "moved_unattributed", "moved_schema_unattributed",
                         "moved_undecodable", "future" }
            THEN None ELSE Some(1),
         source |-> IF known_moved THEN "Esi" ELSE "Import",
         payload_json |->
            CASE kind = "moved" -> [from_system_id |-> None, to_system_id |-> 2]
              [] kind \in { "future", "moved_undecodable" } -> [hello |-> "world"]
              [] kind = "observed_schema" ->
                    [system_id |-> 1, snapshot_id |-> << "snapshot", 1 >>,
                     entries |-> << signature_entry(SigAbc, Some(500)) >>]
              [] OTHER -> [from_system_id |-> Some(2), to_system_id |-> 1]]

\* EventLogStore::append_event of one of the envelopes
ReplayAppend(kind) ==
    LET event == replay_event(event_log, kind)
        stored == append_event(event_log, event)
    IN  /\ Cardinality(event_log) < MaxEvents
        /\ event_log' = stored.table
        /\ appended' = WithAppend(appended, event, stored.result)
        /\ last_step' = [kind |-> "append_event", event |-> event,
                         result |-> stored.result]
        /\ UNCHANGED << state, emit, snapshots, applied, esi_vars >>

\* AppRuntime::catch_up_projection_from_store on the live facade
CatchUp ==
    LET since_seq == IF IsSome(state.last_projected_seq)
                     THEN Unwrap(state.last_projected_seq) ELSE 0
        run == catch_up_projection_from_store_locked(event_log, state)
    IN  /\ state' = run.state
        /\ last_step' = [kind |-> "catch_up",
                         records |-> read_events_since(event_log, since_seq),
                         before |-> state, steps |-> run.steps,
                         result |-> run.result]
        /\ applied' = applied \o AppliedBy(event_log, state)
        /\ UNCHANGED << event_log, emit, appended, snapshots, esi_vars >>

\* AppRuntime::from_store on the log, the iterations of its replay kept
ReplayFromStore ==
    LET run == initialize_from_event_log(event_log)
    IN  /\ last_step' = [kind |-> "replay",
                         records |-> read_ordered_events(event_log),
                         before |-> DefaultState, steps |-> run.steps,
                         result |-> run.result, built |-> from_store(event_log)]
        /\ UNCHANGED << event_log, state, emit, appended, snapshots, applied, esi_vars >>

NextReplay ==
    \/ \E kind \in ReplayKinds : ReplayAppend(kind)
    \/ CatchUp
    \/ ReplayFromStore

SpecReplay == Init /\ [][NextReplay]_vars

ReplayRan == last_step.kind \in { "catch_up", "replay" }

KnownEventTypes == { CHARACTER_MOVED_EVENT_TYPE, SYSTEM_SIGNATURES_OBSERVED_EVENT_TYPE }

SupportedSchemaVersion(event_type) ==
    IF event_type = CHARACTER_MOVED_EVENT_TYPE THEN CHARACTER_MOVED_SCHEMA_VERSION
    ELSE SYSTEM_SIGNATURES_OBSERVED_SCHEMA_VERSION

\* the highest global_seq in the store, if it holds a row
HighestStoredSeq ==
    IF event_log = {} THEN None
    ELSE Some(SetMax({ row.global_seq : row \in event_log }))

\* C14: unknown event types advance the sequence only.  In every catch-up and
\* replay, a record of an unknown event_type that the guard does not skip
\* leaves the projection as it was and sets last_projected_seq to its
\* global_seq; and a catch-up or replay that returns Ok ends with
\* last_projected_seq at the highest global_seq in the store.
UnknownTypeAdvancesOnly ==
    ReplayRan =>
        /\ \A i \in DOMAIN last_step.steps :
            LET previous == StateBeforeIteration(i)
                record == last_step.records[i]
                after == last_step.steps[i]
            IN  (/\ record.envelope.event_type \notin KnownEventTypes
                 /\ ~GuardSkips(previous, record))
                => /\ after.outcome = "applied"
                   /\ after.state.projection = previous.projection
                   /\ after.state.last_projected_seq = Some(record.global_seq)
        /\ (last_step.kind = "catch_up" /\ last_step.result.ok)
                => state.last_projected_seq = HighestStoredSeq
        /\ (last_step.kind = "replay" /\ last_step.result.ok)
                => /\ last_step.built.ok
                   /\ last_step.built.state.last_projected_seq = HighestStoredSeq

UnknownTypeAdvancesOnlyWitness ==
    /\ last_step.kind = "replay"
    /\ last_step.result.ok
    /\ Len(last_step.records) = 2
    /\ last_step.records[2].envelope.event_type = "some_future_event"
    /\ IsSome(last_step.records[2].envelope.attribution_character_id)
    /\ last_step.built.state.last_projected_seq = Some(2)
    /\ last_step.built.state.projection.characters[1].current_system_id = 2

RejectedSchemaWitness ==
    /\ last_step.kind = "replay"
    /\ last_step.result = [ok |-> FALSE, error |-> "UnsupportedSchemaVersion"]
    /\ ~IsSome(last_step.records[Len(last_step.steps)].envelope.attribution_character_id)

(***************************************************************************)
(* The location ingestor as a state machine: run_until_shutdown racing the *)
(* shutdown signal at each of its suspension points                        *)
(***************************************************************************)
IngestorCharacter == 1

\* tests::location, and a location in a structure
Locations ==
    { [solar_system_id |-> s, station_id |-> d, structure_id |-> None] :
        s \in SolarSystemIds, d \in {None, Some(1)} }
    \cup { [solar_system_id |-> 1, station_id |-> None, structure_id |-> Some(1)] }

\* what client.get_current_location() answers
LocationResponses ==
    { [ok |-> TRUE, location |-> l] : l \in Locations }
    \cup { [ok |-> FALSE, error |-> e] : e \in {"NeedsReauth", "Api"} }

\* the history with the poll in flight closed
PollClosed(history, outcome, event) ==
    [history EXCEPT ![Len(history)].outcome = outcome,
                    ![Len(history)].event = event]

\* an ingestor that gives up on the first API failure
AfterPollOutcomeGivingUp(self, outcome) ==
    IF outcome = "Success"
    THEN [self EXCEPT !.pc = "sleeping", !.observing = None,
                      !.wait = Some(next_success_delay(self))]
    ELSE [self EXCEPT !.pc = "returned_err", !.observing = None]

\* the ingestor after a poll with this outcome: the wait chosen by
\* run_until_shutdown, or its return on a Terminal outcome
AfterPollOutcome(self, outcome) ==
    CASE outcome = "Success" ->
            [self EXCEPT !.pc = "sleeping", !.observing = None,
                         !.wait = Some(next_success_delay(self))]
      [] outcome = "ApiFailure" ->
            [self EXCEPT !.pc = "sleeping", !.observing = None,
                         !.wait = Some(next_api_failure_delay(self))]
      [] outcome = "Terminal" ->
            [self EXCEPT !.pc = "returned_err", !.observing = None]

\* the top of the loop: return on a signal already there, else go on to poll
AfterBorrow(self, shutdown_rx) ==
    IF borrow(shutdown_rx)
    THEN [self EXCEPT !.pc = "returned_ok", !.wait = None]
    ELSE [self EXCEPT !.pc = "select_poll", !.wait = None]

IngestorFrame == UNCHANGED << app_vars, token_store, sso_client, managed >>

InitIngestor ==
    /\ AppInit
    /\ ingestor = NewIngestor(DefaultPollConfig)
    /\ shutdown \in { watch_channel(FALSE), watch_channel(TRUE) }
    /\ polls = << >>
    /\ token_store = EmptyMap
    /\ sso_client = NewSsoClient
    /\ managed = NewManaged
    /\ last_step = [kind |-> "init"]

\* run_until_shutdown is called: the first pass through the top of the loop
RunUntilShutdown ==
    /\ ingestor.pc = "new"
    /\ ingestor' = AfterBorrow(ingestor, shutdown)
    /\ last_step' = [kind |-> "run_until_shutdown"]
    /\ UNCHANGED << shutdown, polls >>
    /\ IngestorFrame

\* the top of the loop on a later pass
LoopTop ==
    /\ ingestor.pc = "loop_top"
    /\ ingestor' = AfterBorrow(ingestor, shutdown)
    /\ last_step' = [kind |-> "loop_top"]
    /\ UNCHANGED << shutdown, polls >>
    /\ IngestorFrame

\* select! polls poll_once: the request to the client is under way
PollStart ==
    /\ ingestor.pc = "select_poll"
    /\ Len(polls) < MaxPolls
    /\ ingestor' = [ingestor EXCEPT !.pc = "fetching"]
    /\ polls' = Append(polls, [response |-> None, outcome |-> "InFlight",
                               event |-> None])
    /\ last_step' = [kind |-> "poll_start"]
    /\ UNCHANGED shutdown
    /\ IngestorFrame

\* client.get_current_location() answers: fetch_location, and observe_location
\* up to sink.emit_movement or, without an emission, to the end of poll_once
FetchCompletes(response) ==
    /\ ingestor.pc = "fetching"
    /\ LET history == [polls EXCEPT ![Len(polls)].response = Some(response)]
       IN  IF ~response.ok
           THEN IF response.error = "NeedsReauth"
                THEN /\ ingestor' = AfterPollOutcome(ingestor, "Terminal")
                     /\ polls' = PollClosed(history, "Terminal", None)
                ELSE /\ ingestor' = AfterPollOutcome(record_api_failure(ingestor),
                                                     "ApiFailure")
                     /\ polls' = PollClosed(history, "ApiFailure", None)
           ELSE IF should_emit_event(ingestor.last_location, response.location)
                THEN /\ ingestor' = [ingestor EXCEPT
                                        !.pc = "emitting",
                                        !.observing = Some(response.location)]
                     /\ polls' = history
                ELSE /\ ingestor' =
                        AfterPollOutcome(
                            record_success([ingestor EXCEPT
                                !.last_location = Some(response.location)]),
                            "Success")
                     /\ polls' = PollClosed(history, "Success", None)
    /\ last_step' = [kind |-> "fetch_completes", response |-> response]
    /\ UNCHANGED shutdown
    /\ IngestorFrame

\* sink.emit_movement(event) returns: the rest of observe_location and poll_once
EmitCompletes(emitted) ==
    /\ ingestor.pc = "emitting"
    /\ LET location == Unwrap(ingestor.observing)
           event == ObservedMovement(ingestor, IngestorCharacter, location, Len(polls))
       IN  IF emitted
           THEN /\ ingestor' =
                    AfterPollOutcome(
                        record_success([ingestor EXCEPT
                            !.last_location = Some(location)]),
                        "Success")
                /\ polls' = PollClosed(polls, "Success", Some(event))
           ELSE /\ ingestor' = AfterPollOutcome(ingestor, "Terminal")
                /\ polls' = PollClosed(polls, "Terminal", None)
    /\ last_step' = [kind |-> "emit_completes", emitted |-> emitted]
    /\ UNCHANGED shutdown
    /\ IngestorFrame

\* the first select!: shutdown_rx.changed() wins, poll_once is dropped where
\* it stands; a sink call under way may or may not have stored its event
ShutdownDuringPoll(stored) ==
    /\ ingestor.pc \in { "select_poll", "fetching", "emitting" }
    /\ changed_ready(shutdown)
    /\ stored => ingestor.pc = "emitting"
    /\ shutdown' = changed_seen(shutdown)
    /\ ingestor' = [ingestor EXCEPT
                        !.pc = IF shutdown_signaled(shutdown) THEN "returned_ok"
                               ELSE "loop_top",
                        !.observing = None]
    /\ polls' = IF ingestor.pc = "select_poll" THEN polls
                ELSE PollClosed(polls, "Cancelled",
                        IF stored
                        THEN Some(ObservedMovement(ingestor, IngestorCharacter,
                                                   Unwrap(ingestor.observing),
                                                   Len(polls)))
                        ELSE None)
    /\ last_step' = [kind |-> "shutdown_during_poll"]
    /\ IngestorFrame

\* the second select!: sleep(wait) elapses
SleepElapses ==
    /\ ingestor.pc = "sleeping"
    /\ ingestor' = [ingestor EXCEPT !.pc = "loop_top"]
    /\ last_step' = [kind |-> "sleep_elapses"]
    /\ UNCHANGED << shutdown, polls >>
    /\ IngestorFrame

\* the second select!: shutdown_rx.changed() wins
ShutdownDuringSleep ==
    /\ ingestor.pc = "sleeping"
    /\ changed_ready(shutdown)
    /\ shutdown' = changed_seen(shutdown)
    /\ ingestor' = [ingestor EXCEPT
                        !.pc = IF shutdown_signaled(shutdown) THEN "returned_ok"
                               ELSE "loop_top"]
    /\ last_step' = [kind |-> "shutdown_during_sleep"]
    /\ UNCHANGED polls
    /\ IngestorFrame

\* shutdown_tx.send(true), from another task
SendShutdown ==
    /\ ~shutdown.closed
    /\ ~shutdown.value
    /\ shutdown' = [shutdown EXCEPT !.value = TRUE, !.version = @ + 1,
                                    !.at_pc = ingestor.pc,
                                    !.at_polls = Len(polls)]
    /\ last_step' = [kind |-> "send_shutdown"]
    /\ UNCHANGED << ingestor, polls >>
    /\ IngestorFrame

\* the sender is dropped
DropSender ==
    /\ ~shutdown.closed
    /\ shutdown' = [shutdown EXCEPT !.closed = TRUE]
    /\ last_step' = [kind |-> "drop_sender"]
    /\ UNCHANGED << ingestor, polls >>
    /\ IngestorFrame

NextIngestor ==
    \/ RunUntilShutdown
    \/ LoopTop
    \/ PollStart
    \/ \E response \in LocationResponses : FetchCompletes(response)
    \/ \E emitted \in BOOLEAN : EmitCompletes(emitted)
    \/ \E stored \in BOOLEAN : ShutdownDuringPoll(stored)
    \/ SleepElapses
    \/ ShutdownDuringSleep
    \/ SendShutdown
    \/ DropSender

SpecIngestor == InitIngestor /\ [][NextIngestor]_vars

\* the scheduler runs the ingestor's task when it can go on: a select! with a
\* ready shutdown branch completes, and the top of the loop does not wait
SpecIngestorLive ==
    /\ SpecIngestor
    /\ WF_vars(LoopTop)
    /\ WF_vars(\E stored \in BOOLEAN : ShutdownDuringPoll(stored))
    /\ WF_vars(ShutdownDuringSleep)

\* the successful polls before poll i
SuccessesBefore(i) == { j \in 1..(i - 1) : polls[j].outcome = "Success" }

\* C16: poll transition rule.  Among the successful polls of one ingestor, a
\* poll emits a movement event exactly when it is the first successful poll
\* or its solar_system_id differs from the one of the previous successful
\* poll; a poll that differs from the previous one in station_id or
\* structure_id only emits nothing.
PollTransitionRule ==
    \A i \in DOMAIN polls :
        polls[i].outcome = "Success" =>
            LET location == Unwrap(polls[i].response).location
                earlier == SuccessesBefore(i)
                previous == Unwrap(polls[SetMax(earlier)].response).location
            IN  /\ IsSome(polls[i].event)
                    <=> (earlier = {}
                         \/ previous.solar_system_id # location.solar_system_id)
                /\ IsSome(polls[i].event) =>
                        Unwrap(polls[i].event).to_system_id = location.solar_system_id

PollTransitionRuleWitness ==
    /\ Len(polls) = 3
    /\ \A i \in 1..3 : polls[i].outcome = "Success"
    /\ IsSome(polls[1].event)
    /\ ~IsSome(polls[2].event)
    /\ Unwrap(polls[2].response).location # Unwrap(polls[1].response).location
    /\ IsSome(polls[3].event)

IngestorReturned == ingestor.pc \in { "returned_ok", "returned_err" }

\* the signal was true when run_until_shutdown was called
SignalledBeforeCall == shutdown.value /\ shutdown.at_pc = "new"

\* the signal became true while a poll was in flight or during a sleep
SignalledInFlight ==
    shutdown.value /\ shutdown.at_pc \in { "fetching", "emitting", "sleeping" }

\* no poll and no emission before the return, for a signal that was there at
\* the call; no poll started after a signal that came in flight, and an Err
\* return only from a Terminal poll
ShutdownStartsNoPoll ==
    /\ SignalledBeforeCall =>
            /\ polls = << >>
            /\ ingestor.pc \in { "new", "returned_ok" }
    /\ SignalledInFlight =>
            /\ Len(polls) = shutdown.at_polls
            /\ ingestor.pc = "returned_err" => polls[Len(polls)].outcome = "Terminal"
            /\ ingestor.pc = "returned_ok" =>
                    polls[Len(polls)].outcome \in { "Success", "ApiFailure", "Cancelled" }

\* C17: shutdown ends the ingestor cleanly.  With the signal already true at
\* the call, run_until_shutdown returns Ok before any poll or emission; with
\* a signal that becomes true while a poll is in flight or during a sleep, it
\* starts no further poll and eventually returns, with Ok unless a Terminal
\* outcome made it return Err.
ShutdownEndsIngestor ==
    /\ [](ShutdownStartsNoPoll)
    /\ (SignalledBeforeCall /\ ingestor.pc # "new") ~> (ingestor.pc = "returned_ok")
    /\ SignalledInFlight ~> IngestorReturned

ShutdownEndsIngestorWitness ==
    /\ SignalledInFlight
    /\ shutdown.at_pc = "emitting"
    /\ ingestor.pc = "returned_ok"
    /\ polls[Len(polls)].outcome = "Success"
    /\ Len(polls) = 2

(***************************************************************************)
(* A streak of API failures: poll_once called directly, the backoff read   *)
(* after each failure                                                      *)
(***************************************************************************)
\* the default configuration, the one of the tests, and configurations whose
\* backoff takes 2, 20 and 30 doublings to reach the maximum
BackoffConfigs ==
    { [DefaultPollConfig EXCEPT !.api_failure_backoff_initial = c.initial,
                                !.api_failure_backoff_max = c.max] :
        c \in { [initial |-> 1000, max |-> 30000],
                [initial |-> 1000, max |-> 5000],
                [initial |-> 250, max |-> 1000],
                [initial |-> 500, max |-> 500],
                [initial |-> 3, max |-> 3000000],
                [initial |-> 1, max |-> 1073741824] } }

InitBackoff ==
    /\ AppInit
    /\ ingestor \in { NewIngestor(config) : config \in BackoffConfigs }
    /\ shutdown = watch_channel(FALSE)
    /\ polls = << >>
    /\ token_store = EmptyMap
    /\ sso_client = NewSsoClient
    /\ managed = NewManaged
    /\ last_step = [kind |-> "init"]

\* poll_once called on an ingestor that is not running, with a client that
\* answers an error other than NeedsReauth, then next_api_failure_delay; the
\* streak goes two polls past the ceiling of the counter
PollOnceApiFailure ==
    LET failed == record_api_failure(ingestor)
    IN  /\ ingestor.pc = "new"
        /\ Len(polls) < FailuresMax + 2
        /\ ingestor' = failed
        /\ polls' = Append(polls, [response |-> Some([ok |-> FALSE, error |-> "Api"]),
                                   outcome |-> "ApiFailure",
                                   event |-> None])
        /\ last_step' = [kind |-> "api_failure",
                         previous_delay |-> next_api_failure_delay(ingestor),
                         delay |-> next_api_failure_delay(failed)]
        /\ UNCHANGED shutdown
        /\ IngestorFrame

NextBackoff == PollOnceApiFailure

SpecBackoff == InitBackoff /\ [][NextBackoff]_vars

\* the quotient rounded up
CeilDiv(a, b) == (a + b - 1) \div b

\* min(initial * 2^(n-1), max) for n >= 1, by comparing 2^(n-1) with
\* max / initial; max is below 2^31
MinOfDoubled(n, initial, max) ==
    IF n - 1 > 30 \/ 2 ^ (n - 1) >= CeilDiv(max, initial)
    THEN max
    ELSE initial * 2 ^ (n - 1)

BackoffDoublingWitness ==
    /\ last_step.kind = "api_failure"
    /\ ingestor.api_consecutive_failures = 3
    /\ last_step.delay = 4000
    /\ last_step.previous_delay = 2000

(***************************************************************************)
(* The parser called directly on texts of up to MaxLines lines             *)
(***************************************************************************)
\* "ABC-123\tG\tS"
LineFewColumns ==
    << "A", "B", "C", "-", "1", "2", "3", "\t", "G", "\t", "S" >>

\* "ABC-123\t \tS\t\t5%"
LineNoGroup ==
    << "A", "B", "C", "-", "1", "2", "3", "\t", " ", "\t", "S", "\t", "\t", "5", "%" >>

\* "XYZ-789\tH\tS\t\tabs%\t1 AU"
LineBadPercent ==
    << "X", "Y", "Z", "-", "7", "8", "9", "\t", "H", "\t", "S", "\t", "\t",
       "a", "b", "s", "%", "\t", "1", " ", "A", "U" >>

\* "" : an empty line
LineEmpty == << >>

ParserLines ==
    { LineAbc10, LineXyz, LineBlank, LineEmpty,
      LineBadId, LineFewColumns, LineNoGroup, LineBadPercent }

ParserTexts == UNION { [1..n -> ParserLines] : n \in 0..MaxLines }

\* a text is at hand, not yet parsed
InitParse ==
    /\ AppInit
    /\ EsiInit
    /\ last_step \in { [kind |-> "text", input |-> input] : input \in ParserTexts }

\* parse_signature_snapshot(input) on the text at hand
ParseSnapshot ==
    /\ last_step.kind = "text"
    /\ last_step' = [kind |-> "parse", input |-> last_step.input,
                     result |-> parse_signature_snapshot(last_step.input)]
    /\ UNCHANGED << app_vars, esi_vars >>

NextParse == ParseSnapshot

SpecParse == InitParse /\ [][NextParse]_vars

\* what each line of the model is, read off its text: blank, an entry with
\* this signature id, or the rule it breaks
LineReading(line) ==
    CASE line \in { LineBlank, LineEmpty } -> [kind |-> "blank"]
      [] line = LineAbc10 -> [kind |-> "entry", signature_id |-> SigAbc]
      [] line = LineXyz -> [kind |-> "entry", signature_id |-> SigXyz]
      [] line = LineBadId -> [kind |-> "InvalidSignatureId"]
      [] line = LineFewColumns -> [kind |-> "InvalidColumnCount"]
      [] line = LineNoGroup -> [kind |-> "MissingGroup"]
      [] line = LineBadPercent -> [kind |-> "InvalidScanPercent"]

\* the lines of the input that break a rule
OffendingLines(input) ==
    { i \in DOMAIN input : LineReading(input[i]).kind \notin { "blank", "entry" } }

SetMin(S) == CHOOSE x \in S : \A y \in S : x <= y

\* the signature ids of the non-blank lines, in input order
RECURSIVE EntryIds(_)
EntryIds(input) ==
    IF input = << >> THEN << >>
    ELSE (IF LineReading(Head(input)).kind = "entry"
          THEN << LineReading(Head(input)).signature_id >> ELSE << >>)
         \o EntryIds(Tail(input))

\* C19: the parser is all-or-nothing and reports the first offending line.
\* When a line of the input breaks a rule, the result is the error of the
\* rule broken by the first such line, with that line's 1-based number in the
\* raw input, blank lines counted, and no entries; otherwise the result is
\* one entry per non-blank line, in input order, blank and whitespace-only
\* lines giving none.
ParseAllOrNothing ==
    last_step.kind = "parse" =>
        LET input == last_step.input
            result == last_step.result
            offending == OffendingLines(input)
        IN  IF offending # {}
            THEN /\ ~result.ok
                 /\ "entries" \notin DOMAIN result
                 /\ result.error.line = SetMin(offending)
                 /\ result.error.kind = LineReading(input[SetMin(offending)]).kind
            ELSE /\ result.ok
                 /\ Len(result.entries) = Len(EntryIds(input))
                 /\ \A k \in DOMAIN result.entries :
                        result.entries[k].signature_id = EntryIds(input)[k]

ParseAllOrNothingWitness ==
    /\ last_step.kind = "parse"
    /\ last_step.input = << LineAbc10, LineEmpty, LineBadPercent >>
    /\ ~last_step.result.ok
    /\ last_step.result.error.kind = "InvalidScanPercent"
    /\ last_step.result.error.line = 3

ParseSkipsBlankWitness ==
    /\ last_step.kind = "parse"
    /\ last_step.input = << LineBlank, LineXyz, LineAbc10 >>
    /\ last_step.result.ok
    /\ Len(last_step.result.entries) = 2

(***************************************************************************)
(* jaytripper_esi::auth: the session service over its token store and its  *)
(* SSO client                                                              *)
(***************************************************************************)
\* the scope the service is built with in the tests
RequiredScopes == << "esi-location.read_location.v1" >>

\* AuthService::with_clock: refresh_skew is Duration::from_secs(60)
RefreshSkewSecs == 60

\* missing_required_scopes: the required scopes that are not granted, in order
missing_required_scopes(granted_scopes, required_scopes) ==
    SelectSeq(required_scopes,
              LAMBDA required :
                ~\E i \in DOMAIN granted_scopes : granted_scopes[i] = required)

\* a comparison turned around: refresh while the token is still good
should_refresh_reversed(session, now, refresh_skew) ==
    session.access_expires_at >= now + refresh_skew

\* AuthSession::should_refresh; now + skew does not overflow at the times of
\* the model
should_refresh(session, now, refresh_skew) ==
    session.access_expires_at <= now + refresh_skew

\* Display of EsiError
EsiError_to_string(err) ==
    CASE err.variant = "Message" -> err.text
      [] err.variant = "Rfesi" -> "esi operation failed"
      [] err.variant = "MissingRequiredScopes" ->
            << "missing required scopes: ", err.missing >>

\* TokenStore::load_session
load_session(store, character_id) ==
    IF character_id \in DOMAIN store THEN Some(store[character_id]) ELSE None

\* TokenStore::save_session
save_session(store, session) == MapInsert(store, session.character_id, session)

\* TokenStore::clear_session
clear_session(store, character_id) ==
    [c \in DOMAIN store \ {character_id} |-> store[c]]

\* SsoAuthClient::hydrate_session_tokens, called by hydrate_session
hydrate_session(client, session) ==
    [client EXCEPT !.hydrated =
        Some([access_token |-> session.access_token,
              access_expires_at |-> session.access_expires_at,
              refresh_token |-> session.refresh_token])]

\* a NeedsReauth answer for missing scopes that keeps the stored session
MissingScopesKept(store, client, character_id, missing, refresh_called) ==
    [store |-> store,
     client |-> client,
     refresh_called |-> refresh_called,
     result |-> [kind |-> "NeedsReauth",
                 reason |-> EsiError_to_string([variant |-> "MissingRequiredScopes",
                                                missing |-> missing])]]

\* the NeedsReauth answer for missing scopes, the stored session cleared
MissingScopesOutcome(store, client, character_id, missing, refresh_called) ==
    [store |-> clear_session(store, character_id),
     client |-> client,
     refresh_called |-> refresh_called,
     result |-> [kind |-> "NeedsReauth",
                 reason |-> EsiError_to_string([variant |-> "MissingRequiredScopes",
                                                missing |-> missing])]]

\* a refresh whose tokens are returned and hydrated but not saved
AfterRefreshNotSaved(store, client, character_id, session, tokens, now) ==
    LET refreshed == [session EXCEPT !.access_token = tokens.access_token,
                                     !.access_expires_at = tokens.access_expires_at,
                                     !.refresh_token = tokens.refresh_token,
                                     !.updated_at = now]
    IN  [store |-> store,
         client |-> hydrate_session(client, refreshed),
         refresh_called |-> TRUE,
         result |-> [kind |-> "Ready", session |-> refreshed]]

\* a refresh after which the session carries no scopes
AfterRefreshDroppingScopes(store, client, character_id, session, tokens, now) ==
    LET refreshed == [session EXCEPT !.access_token = tokens.access_token,
                                     !.access_expires_at = tokens.access_expires_at,
                                     !.refresh_token = tokens.refresh_token,
                                     !.updated_at = now,
                                     !.scopes = << >>]
        missing == missing_required_scopes(refreshed.scopes, RequiredScopes)
    IN  IF missing # << >>
        THEN MissingScopesOutcome(store, client, character_id, missing, TRUE)
        ELSE [store |-> save_session(store, refreshed),
              client |-> hydrate_session(client, refreshed),
              refresh_called |-> TRUE,
              result |-> [kind |-> "Ready", session |-> refreshed]]

\* ensure_valid_session once the refresh call has answered Ok(tokens)
AfterRefresh(store, client, character_id, session, tokens, now) ==
    LET refreshed == [session EXCEPT !.access_token = tokens.access_token,
                                     !.access_expires_at = tokens.access_expires_at,
                                     !.refresh_token = tokens.refresh_token,
                                     !.updated_at = now]
        missing == missing_required_scopes(refreshed.scopes, RequiredScopes)
    IN  IF missing # << >>
        THEN MissingScopesOutcome(store, client, character_id, missing, TRUE)
        ELSE [store |-> save_session(store, refreshed),
              client |-> hydrate_session(client, refreshed),
              refresh_called |-> TRUE,
              result |-> [kind |-> "Ready", session |-> refreshed]]

\* a service that drops the stored session when the refresh fails
ensure_valid_session_clearing(store, client, character_id, now, refresh_result) ==
    LET session == Unwrap(load_session(store, character_id))
    IN  IF ~IsSome(load_session(store, character_id))
        THEN [store |-> store, client |-> client, refresh_called |-> FALSE,
              result |-> [kind |-> "Missing"]]
        ELSE IF missing_required_scopes(session.scopes, RequiredScopes) # << >>
        THEN MissingScopesOutcome(store, client, character_id,
                missing_required_scopes(session.scopes, RequiredScopes), FALSE)
        ELSE IF ~should_refresh(session, now, RefreshSkewSecs)
        THEN [store |-> store, client |-> hydrate_session(client, session),
              refresh_called |-> FALSE,
              result |-> [kind |-> "Ready", session |-> session]]
        ELSE IF refresh_result.ok
        THEN AfterRefresh(store, client, character_id, session,
                          refresh_result.tokens, now)
        ELSE [store |-> clear_session(store, character_id), client |-> client,
              refresh_called |-> TRUE,
              result |-> [kind |-> "NeedsReauth",
                          reason |-> EsiError_to_string(refresh_result.error)]]

\* AuthService::ensure_valid_session: the store and the client after the call,
\* whether client.refresh was called, and the result; refresh_result is what
\* client.refresh answers if it is called
ensure_valid_session(store, client, character_id, now, refresh_result) ==
    LET session == Unwrap(load_session(store, character_id))
    IN  IF ~IsSome(load_session(store, character_id))
        THEN [store |-> store, client |-> client, refresh_called |-> FALSE,
              result |-> [kind |-> "Missing"]]
        ELSE IF missing_required_scopes(session.scopes, RequiredScopes) # << >>
        THEN MissingScopesOutcome(store, client, character_id,
                missing_required_scopes(session.scopes, RequiredScopes), FALSE)
        ELSE IF ~should_refresh(session, now, RefreshSkewSecs)
        THEN [store |-> store, client |-> hydrate_session(client, session),
              refresh_called |-> FALSE,
              result |-> [kind |-> "Ready", session |-> session]]
        ELSE IF refresh_result.ok
        THEN AfterRefresh(store, client, character_id, session,
                          refresh_result.tokens, now)
        ELSE [store |-> store, client |-> client, refresh_called |-> TRUE,
              result |-> [kind |-> "NeedsReauth",
                          reason |-> EsiError_to_string(refresh_result.error)]]

\* a delay that forgets the floor
next_refresh_delay_unfloored(store, character_id, now, floor) ==
    LET session == Unwrap(load_session(store, character_id))
    IN  IF ~IsSome(load_session(store, character_id))
        THEN [store |-> store,
              result |-> [kind |-> "NeedsReauth",
                          reason |-> "session missing for selected character"]]
        ELSE IF missing_required_scopes(session.scopes, RequiredScopes) # << >>
        THEN [store |-> clear_session(store, character_id),
              result |-> [kind |-> "NeedsReauth",
                          reason |-> EsiError_to_string(
                              [variant |-> "MissingRequiredScopes",
                               missing |-> missing_required_scopes(session.scopes,
                                                                  RequiredScopes)])]]
        ELSE IF should_refresh(session, now, RefreshSkewSecs)
        THEN [store |-> store, result |-> [kind |-> "ReadyNow"]]
        ELSE [store |-> store,
              result |-> [kind |-> "Wait",
                          delay |-> session.access_expires_at
                                        - (now + RefreshSkewSecs)]]

\* AuthService::next_refresh_delay: the store after the call and the result;
\* the client is not an argument, no call of it is made.  now + refresh_skew
\* does not overflow for the times of the model
next_refresh_delay(store, character_id, now, floor) ==
    LET session == Unwrap(load_session(store, character_id))
        refresh_deadline == now + RefreshSkewSecs
        delay == session.access_expires_at - refresh_deadline
    IN  IF ~IsSome(load_session(store, character_id))
        THEN [store |-> store,
              result |-> [kind |-> "NeedsReauth",
                          reason |-> "session missing for selected character"]]
        ELSE IF missing_required_scopes(session.scopes, RequiredScopes) # << >>
        THEN [store |-> clear_session(store, character_id),
              result |-> [kind |-> "NeedsReauth",
                          reason |-> EsiError_to_string(
                              [variant |-> "MissingRequiredScopes",
                               missing |-> missing_required_scopes(session.scopes,
                                                                  RequiredScopes)])]]
        ELSE IF should_refresh(session, now, RefreshSkewSecs)
        THEN [store |-> store, result |-> [kind |-> "ReadyNow"]]
        ELSE IF delay < 0
        THEN [store |-> store, result |-> [kind |-> "ReadyNow"]]
        ELSE [store |-> store,
              result |-> [kind |-> "Wait", delay |-> Max(delay, floor)]]

(***************************************************************************)
(* The session service as a state machine                                  *)
(***************************************************************************)
\* FixedClock { now: ts(500) }, in seconds
AuthNow == 500

\* tests::sample_session for two characters: due for refresh (510, and 560
\* which is now + skew) or not (561, 1000), with the required scope, with one
\* more, and without it
StoredSessions ==
    { [character_id |-> c,
       character_name |-> Some("Pilot"),
       scopes |-> scopes,
       access_token |-> "access",
       access_expires_at |-> expires_at,
       refresh_token |-> "refresh",
       updated_at |-> 100] :
        c \in CharacterIds,
        scopes \in { RequiredScopes, << "other" >> \o RequiredScopes, << "other" >> },
        expires_at \in { 510, 560, 561, 1000 } }

\* what client.refresh answers
RefreshResults ==
    { [ok |-> TRUE,
       tokens |-> [access_token |-> "refreshed-access",
                   access_expires_at |-> 2000,
                   refresh_token |-> "refreshed-refresh"]],
      [ok |-> FALSE,
       error |-> [variant |-> "Message", text |-> "refresh token rejected"]],
      [ok |-> FALSE, error |-> [variant |-> "Rfesi"]] }

AuthFrame == UNCHANGED << app_vars, ingestor, shutdown, polls, managed >>

\* store.save_session(&session)
StoreSaveSession(session) ==
    /\ token_store' = save_session(token_store, session)
    /\ last_step' = [kind |-> "save_session"]
    /\ UNCHANGED sso_client
    /\ AuthFrame

\* AuthService::logout
Logout(character_id) ==
    /\ token_store' = clear_session(token_store, character_id)
    /\ last_step' = [kind |-> "logout"]
    /\ UNCHANGED sso_client
    /\ AuthFrame

\* AuthService::ensure_valid_session
EnsureValidSession(character_id, refresh_result) ==
    LET call == ensure_valid_session(token_store, sso_client, character_id,
                                     AuthNow, refresh_result)
    IN  /\ token_store' = call.store
        /\ sso_client' = call.client
        /\ last_step' = [kind |-> "ensure_valid_session",
                         character_id |-> character_id,
                         store_before |-> token_store,
                         client_before |-> sso_client,
                         refresh_result |-> refresh_result,
                         refresh_called |-> call.refresh_called,
                         result |-> call.result]
        /\ AuthFrame

\* DEFAULT_REFRESH_FLOOR, in seconds
DEFAULT_REFRESH_FLOOR == 5

\* the floors next_refresh_delay is called with: none, the default, a long one
RefreshFloors == { 0, DEFAULT_REFRESH_FLOOR, 500 }

\* AuthService::next_refresh_delay
NextRefreshDelay(character_id, floor) ==
    LET call == next_refresh_delay(token_store, character_id, AuthNow, floor)
    IN  /\ token_store' = call.store
        /\ last_step' = [kind |-> "next_refresh_delay",
                         character_id |-> character_id,
                         floor |-> floor,
                         store_before |-> token_store,
                         client_before |-> sso_client,
                         result |-> call.result]
        /\ UNCHANGED sso_client
        /\ AuthFrame

NextAuth ==
    \/ \E session \in StoredSessions : StoreSaveSession(session)
    \/ \E character_id \in CharacterIds, floor \in RefreshFloors :
            NextRefreshDelay(character_id, floor)
    \/ \E character_id \in CharacterIds : Logout(character_id)
    \/ \E character_id \in CharacterIds, refresh_result \in RefreshResults :
            EnsureValidSession(character_id, refresh_result)

SpecAuth == Init /\ [][NextAuth]_vars

\* the last call was ensure_valid_session on a stored session that covers the
\* required scopes and is due for refresh, and the refresh call failed
RefreshFailed ==
    /\ last_step.kind = "ensure_valid_session"
    /\ last_step.character_id \in DOMAIN last_step.store_before
    /\ LET session == last_step.store_before[last_step.character_id]
       IN  /\ \A i \in DOMAIN RequiredScopes :
                \E j \in DOMAIN session.scopes : session.scopes[j] = RequiredScopes[i]
           /\ session.access_expires_at <= AuthNow + RefreshSkewSecs
    /\ ~last_step.refresh_result.ok

\* C20: a failed refresh keeps the session.  When the stored session covers
\* the required scopes and the refresh call fails, ensure_valid_session
\* returns NeedsReauth with the text of the error as its reason, and the
\* token store is exactly as before the call: the session is still stored,
\* with the tokens it had.
RefreshFailureKeepsSession ==
    RefreshFailed =>
        /\ last_step.refresh_called
        /\ last_step.result.kind = "NeedsReauth"
        /\ last_step.result.reason =
                (IF last_step.refresh_result.error.variant = "Message"
                 THEN last_step.refresh_result.error.text
                 ELSE "esi operation failed")
        /\ token_store = last_step.store_before
        /\ last_step.character_id \in DOMAIN token_store
        /\ token_store[last_step.character_id].refresh_token
            = last_step.store_before[last_step.character_id].refresh_token
        /\ sso_client = last_step.client_before

RefreshFailureWitness ==
    /\ RefreshFailed
    /\ last_step.result = [kind |-> "NeedsReauth", reason |-> "refresh token rejected"]
    /\ token_store[last_step.character_id].access_expires_at = 510
    /\ token_store[last_step.character_id].refresh_token = "refresh"

\* the last call was ensure_valid_session on a stored session
EnsuredStored ==
    /\ last_step.kind = "ensure_valid_session"
    /\ last_step.character_id \in DOMAIN last_step.store_before

\* the session the last call found in the store
SessionBefore == last_step.store_before[last_step.character_id]

\* every required scope is among the granted ones
CoversRequired(granted_scopes) ==
    \A i \in DOMAIN RequiredScopes :
        \E j \in DOMAIN granted_scopes : granted_scopes[j] = RequiredScopes[i]

\* the store with the session of one character removed, the others as they were
StoreWithout(store, character_id) ==
    /\ DOMAIN token_store = DOMAIN store \ {character_id}
    /\ \A c \in DOMAIN token_store : token_store[c] = store[c]

NotDueReturnedWithoutRefresh ==
    /\ (/\ EnsuredStored
        /\ CoversRequired(SessionBefore.scopes)
        /\ SessionBefore.access_expires_at > AuthNow + RefreshSkewSecs)
       => /\ last_step.result = [kind |-> "Ready", session |-> SessionBefore]
          /\ ~last_step.refresh_called
          /\ token_store = last_step.store_before
    /\ (last_step.kind = "ensure_valid_session" /\ last_step.refresh_called)
       => /\ EnsuredStored
          /\ SessionBefore.access_expires_at <= AuthNow + RefreshSkewSecs

NotDueWitness ==
    /\ EnsuredStored
    /\ CoversRequired(SessionBefore.scopes)
    /\ SessionBefore.access_expires_at = AuthNow + RefreshSkewSecs + 1
    /\ last_step.result.kind = "Ready"
    /\ ~last_step.refresh_called

DelayAsked == last_step.kind = "next_refresh_delay"

\* the last call was next_refresh_delay on a stored session covering the scopes
DelayAskedCovered ==
    /\ DelayAsked
    /\ last_step.character_id \in DOMAIN last_step.store_before
    /\ CoversRequired(SessionBefore.scopes)

RefreshDelayRemainingWitness ==
    /\ DelayAskedCovered
    /\ SessionBefore.access_expires_at = 1000
    /\ last_step.floor = DEFAULT_REFRESH_FLOOR
    /\ last_step.result = [kind |-> "Wait", delay |-> 440]

(***************************************************************************)
(* Login: begin_login, exchange_code, complete_login                       *)
(***************************************************************************)
\* RfesiSsoClient::begin_login: auth_info is what esi.get_authorize_url answers
begin_login(client, auth_info) ==
    IF ~auth_info.ok
    THEN [client |-> client, result |-> [ok |-> FALSE, error |-> auth_info.error]]
    ELSE [client |-> [client EXCEPT !.pending = Some(auth_info.state)],
          result |-> [ok |-> TRUE,
                      value |-> [authorization_url |-> auth_info.authorization_url,
                                 state |-> auth_info.state]]]

\* an exchange that reads the pending login and leaves it in place
exchange_code_keeping_pending(client, callback_state, authenticate) ==
    IF ~IsSome(client.pending)
    THEN [client |-> client,
          result |-> [ok |-> FALSE, error |-> [variant |-> "LoginNotStarted"]]]
    ELSE IF callback_state # Unwrap(client.pending)
    THEN [client |-> client,
          result |-> [ok |-> FALSE,
                      error |-> [variant |-> "StateMismatch",
                                 expected |-> Unwrap(client.pending),
                                 got |-> callback_state]]]
    ELSE IF ~authenticate.ok
    THEN [client |-> client,
          result |-> [ok |-> FALSE, error |-> authenticate.error]]
    ELSE [client |-> client,
          result |-> [ok |-> TRUE, value |-> authenticate.tokens]]

\* RfesiSsoClient::exchange_code: self.pending.take() comes first; authenticate
\* is what esi.authenticate and the reading of its claims answer
exchange_code(client, callback_state, authenticate) ==
    LET taken == [client EXCEPT !.pending = None]
    IN  IF ~IsSome(client.pending)
        THEN [client |-> taken,
              result |-> [ok |-> FALSE, error |-> [variant |-> "LoginNotStarted"]]]
        ELSE IF callback_state # Unwrap(client.pending)
        THEN [client |-> taken,
              result |-> [ok |-> FALSE,
                          error |-> [variant |-> "StateMismatch",
                                     expected |-> Unwrap(client.pending),
                                     got |-> callback_state]]]
        ELSE IF ~authenticate.ok
        THEN [client |-> taken,
              result |-> [ok |-> FALSE, error |-> authenticate.error]]
        ELSE [client |-> taken,
              result |-> [ok |-> TRUE, value |-> authenticate.tokens]]

\* AuthService::persist_and_hydrate_session: hydrate, then save
persist_and_hydrate_session(store, client, session) ==
    [store |-> save_session(store, session),
     client |-> hydrate_session(client, session)]

\* the session complete_login builds from the tokens of the exchange
SessionFromTokens(tokens, now) ==
    [character_id |-> tokens.character_id,
     character_name |-> tokens.character_name,
     scopes |-> tokens.scopes,
     access_token |-> tokens.access_token,
     access_expires_at |-> tokens.access_expires_at,
     refresh_token |-> tokens.refresh_token,
     updated_at |-> now]

\* a login that fails for missing scopes and leaves the older session stored
complete_login_keeping_previous(store, client, callback_state, authenticate, now) ==
    LET exchange == exchange_code(client, callback_state, authenticate)
        tokens == exchange.result.value
        missing_scopes == missing_required_scopes(tokens.scopes, RequiredScopes)
        saved == persist_and_hydrate_session(store, exchange.client,
                                             SessionFromTokens(tokens, now))
    IN  IF ~exchange.result.ok
        THEN [store |-> store, client |-> exchange.client, result |-> exchange.result]
        ELSE IF missing_scopes # << >>
        THEN [store |-> store,
              client |-> exchange.client,
              result |-> [ok |-> FALSE,
                          error |-> [variant |-> "MissingRequiredScopes",
                                     missing |-> missing_scopes]]]
        ELSE [store |-> saved.store,
              client |-> saved.client,
              result |-> [ok |-> TRUE, value |-> SessionFromTokens(tokens, now)]]

\* AuthService::complete_login: the store and the client after the call, and
\* the result
complete_login(store, client, callback_state, authenticate, now) ==
    LET exchange == exchange_code(client, callback_state, authenticate)
        tokens == exchange.result.value
        missing_scopes == missing_required_scopes(tokens.scopes, RequiredScopes)
        saved == persist_and_hydrate_session(store, exchange.client,
                                             SessionFromTokens(tokens, now))
    IN  IF ~exchange.result.ok
        THEN [store |-> store, client |-> exchange.client, result |-> exchange.result]
        ELSE IF missing_scopes # << >>
        THEN [store |-> clear_session(store, tokens.character_id),
              client |-> exchange.client,
              result |-> [ok |-> FALSE,
                          error |-> [variant |-> "MissingRequiredScopes",
                                     missing |-> missing_scopes]]]
        ELSE [store |-> saved.store,
              client |-> saved.client,
              result |-> [ok |-> TRUE, value |-> SessionFromTokens(tokens, now)]]

\* the state parameters the SSO library hands out
LoginStates == { "state-a", "state-b" }

\* what esi.get_authorize_url answers
AuthorizeUrlResults ==
    { [ok |-> TRUE, state |-> st, authorization_url |-> << "https://login/", st >>] :
        st \in LoginStates }
    \cup { [ok |-> FALSE, error |-> [variant |-> "Rfesi"]] }

\* what the code exchange answers: tokens of either character with the
\* required scope, with one more, or without it; or an error
AuthenticateResults ==
    { [ok |-> TRUE,
       tokens |-> [character_id |-> c,
                   character_name |-> Some("Pilot"),
                   scopes |-> scopes,
                   access_token |-> "initial-access",
                   access_expires_at |-> 1500,
                   refresh_token |-> "initial-refresh"]] :
        c \in CharacterIds,
        scopes \in { RequiredScopes, << "other" >> \o RequiredScopes, << "other" >> } }
    \cup { [ok |-> FALSE, error |-> [variant |-> "Rfesi"]] }

\* AuthService::begin_login
BeginLogin(auth_info) ==
    LET call == begin_login(sso_client, auth_info)
    IN  /\ sso_client' = call.client
        /\ last_step' = [kind |-> "begin_login",
                         auth_info |-> auth_info,
                         client_before |-> sso_client,
                         result |-> call.result]
        /\ UNCHANGED token_store
        /\ AuthFrame

\* AuthService::complete_login
CompleteLogin(callback_state, authenticate) ==
    LET call == complete_login(token_store, sso_client, callback_state,
                               authenticate, AuthNow)
    IN  /\ token_store' = call.store
        /\ sso_client' = call.client
        /\ last_step' = [kind |-> "complete_login",
                         callback_state |-> callback_state,
                         authenticate |-> authenticate,
                         store_before |-> token_store,
                         client_before |-> sso_client,
                         result |-> call.result]
        /\ AuthFrame

NextLogin ==
    \/ \E auth_info \in AuthorizeUrlResults : BeginLogin(auth_info)
    \/ \E callback_state \in LoginStates, authenticate \in AuthenticateResults :
            CompleteLogin(callback_state, authenticate)

SpecLogin == Init /\ [][NextLogin]_vars

\* the last call was complete_login and its code exchange succeeded: a login
\* was pending, the callback carried its state, the exchange answered tokens
ExchangeSucceeded ==
    /\ last_step.kind = "complete_login"
    /\ last_step.client_before.pending = Some(last_step.callback_state)
    /\ last_step.authenticate.ok

LoginPersistedWitness ==
    /\ ExchangeSucceeded
    /\ CoversRequired(last_step.authenticate.tokens.scopes)
    /\ last_step.result.ok
    /\ token_store[last_step.authenticate.tokens.character_id] = last_step.result.value

\* C26: the pending login is single-use.  complete_login fails with
\* LoginNotStarted when no login is pending and with StateMismatch when the
\* callback state differs from the pending one; after any complete_login no
\* login is pending; a begin_login that succeeds makes its own state the
\* pending one, whatever was pending before.
PendingLoginSingleUse ==
    /\ last_step.kind = "complete_login" =>
        /\ sso_client.pending = None
        /\ last_step.client_before.pending = None
           => /\ ~last_step.result.ok
              /\ last_step.result.error = [variant |-> "LoginNotStarted"]
        /\ (/\ last_step.client_before.pending # None
            /\ last_step.client_before.pending # Some(last_step.callback_state))
           => /\ ~last_step.result.ok
              /\ last_step.result.error
                    = [variant |-> "StateMismatch",
                       expected |-> Unwrap(last_step.client_before.pending),
                       got |-> last_step.callback_state]
    /\ (last_step.kind = "begin_login" /\ last_step.auth_info.ok) =>
        /\ last_step.result.ok
        /\ last_step.result.value.state = last_step.auth_info.state
        /\ sso_client.pending = Some(last_step.auth_info.state)

\* a mismatching callback against the state of a second begin_login, the
\* pending login consumed
PendingLoginWitness ==
    /\ last_step.kind = "complete_login"
    /\ last_step.client_before.pending = Some("state-b")
    /\ last_step.callback_state = "state-a"
    /\ last_step.result.error.variant = "StateMismatch"
    /\ sso_client.pending = None

\* a second begin_login replaces the pending state
PendingReplacedWitness ==
    /\ last_step.kind = "begin_login"
    /\ last_step.client_before.pending = Some("state-a")
    /\ sso_client.pending = Some("state-b")

\* a second complete_login after a completed one finds nothing pending
LoginNotStartedWitness ==
    /\ last_step.kind = "complete_login"
    /\ token_store # EmptyMap
    /\ last_step.client_before.pending = None
    /\ last_step.result.error.variant = "LoginNotStarted"

(***************************************************************************)
(* ManagedEsiClient: connect, the refresh task, get_current_location       *)
(***************************************************************************)
\* the character the managed client is connected for
ManagedCharacter == IngestorCharacter

\* EsiClient::requires_reauth: needs_reauth.load
requires_reauth(m) == m.needs_reauth

\* EsiClient::reauth_reason: the reason under its lock, cloned
reauth_reason(m) == m.reauth_reason

\* clock.now() of the auth service behind the managed client
ManagedNow == AuthNow + managed.elapsed

\* mark_needs_reauth up to the store of the flag; the store of the reason
\* follows as a step of its own, and the loop is left after it
mark_needs_reauth(m, reason) ==
    [m EXCEPT !.needs_reauth = TRUE, !.marking = Some(reason), !.task = "marking"]

\* the rest of mark_needs_reauth: *guard = Some(reason), then break
store_reauth_reason(m) ==
    [m EXCEPT !.reauth_reason = m.marking, !.marking = None, !.task = "exited"]

\* refresh_loop after next_refresh_delay answered: the wait chosen, or the
\* mark and the exit
after_next_delay(m, next_delay, refresh_floor) ==
    LET counted == [m EXCEPT !.delays = @ + 1,
                             !.last_outcome = IF next_delay.ok
                                              THEN next_delay.value.kind ELSE "Err"]
        wait_duration == IF ~next_delay.ok THEN refresh_floor
                         ELSE IF next_delay.value.kind = "ReadyNow" THEN 0
                         ELSE next_delay.value.delay
    IN  IF next_delay.ok /\ next_delay.value.kind = "NeedsReauth"
        THEN mark_needs_reauth(counted, next_delay.value.reason)
        ELSE IF wait_duration > 0
        THEN [counted EXCEPT !.task = "waiting", !.wait = wait_duration]
        ELSE [counted EXCEPT !.task = "ensure", !.wait = 0]

\* a refresh task that takes Missing and NeedsReauth for passing errors
after_refresh_outcome_retrying(m, refresh_outcome) ==
    LET counted == [m EXCEPT !.ensures = @ + 1,
                             !.state_lock = "free",
                             !.last_outcome = IF refresh_outcome.ok
                                              THEN refresh_outcome.value.kind
                                              ELSE "Err"]
    IN  IF refresh_outcome.ok /\ refresh_outcome.value.kind = "Ready"
        THEN [counted EXCEPT !.task = "loop_top"]
        ELSE [counted EXCEPT !.task = "floor_sleep"]

\* refresh_loop after ensure_valid_session answered, the state lock released
after_refresh_outcome(m, refresh_outcome) ==
    LET counted == [m EXCEPT !.ensures = @ + 1,
                             !.state_lock = "free",
                             !.last_outcome = IF refresh_outcome.ok
                                              THEN refresh_outcome.value.kind
                                              ELSE "Err"]
    IN  IF ~refresh_outcome.ok
        THEN [counted EXCEPT !.task = "floor_sleep"]
        ELSE IF refresh_outcome.value.kind = "Ready"
        THEN [counted EXCEPT !.task = "loop_top"]
        ELSE IF refresh_outcome.value.kind = "Missing"
        THEN mark_needs_reauth(counted, "session missing for selected character")
        ELSE mark_needs_reauth(counted, refresh_outcome.value.reason)

\* a get_current_location that does not look at the flag
get_current_location_unguarded(m) ==
    [m EXCEPT !.caller = "locking",
              !.calls = Append(@, [flagged |-> requires_reauth(m),
                                   locked |-> FALSE,
                                   endpoint |-> FALSE,
                                   result |-> None])]

\* ManagedEsiClient::get_current_location up to its reading of the flag: the
\* call goes on to fail fast or to the state lock
get_current_location(m) ==
    [m EXCEPT !.caller = IF requires_reauth(m) THEN "failing" ELSE "locking",
              !.calls = Append(@, [flagged |-> requires_reauth(m),
                                   locked |-> FALSE,
                                   endpoint |-> FALSE,
                                   result |-> None])]

\* the call in flight, updated
CallUpdated(m, locked, endpoint, result) ==
    [m EXCEPT !.calls[Len(m.calls)].locked = locked,
              !.calls[Len(m.calls)].endpoint = endpoint,
              !.calls[Len(m.calls)].result = result]

\* what the location endpoint answers a caller
EndpointResponses ==
    { r \in LocationResponses :
        r.ok => r.location = [solar_system_id |-> 1, station_id |-> None,
                              structure_id |-> None] }

ManagedFrame == UNCHANGED << app_vars, ingestor, shutdown, polls >>

\* the token store as connect may find it: empty or one session of the character
InitManaged ==
    /\ AppInit
    /\ ingestor = NewIngestor(DefaultPollConfig)
    /\ shutdown = watch_channel(FALSE)
    /\ polls = << >>
    /\ token_store \in { EmptyMap }
            \cup { save_session(EmptyMap, session) :
                     session \in { s \in StoredSessions :
                                     s.character_id = ManagedCharacter } }
    /\ sso_client = NewSsoClient
    /\ managed = NewManaged
    /\ last_step = [kind |-> "init"]

\* ManagedEsiClient::connect: ensure_valid_session, ensure_api_ready, then
\* the flags and the spawn of refresh_loop
Connect(refresh_result, api_ready) ==
    LET call == ensure_valid_session(token_store, sso_client, ManagedCharacter,
                                     ManagedNow, refresh_result)
        ready == call.result.kind = "Ready" /\ api_ready
    IN  /\ ~managed.connected
        /\ token_store' = call.store
        /\ sso_client' = call.client
        /\ managed' = IF ready
                      THEN [managed EXCEPT !.connected = TRUE, !.task = "loop_top"]
                      ELSE managed
        /\ last_step' = [kind |-> "connect", ok |-> ready]
        /\ ManagedFrame

\* another holder of the same token store, one that requires other scopes,
\* saves a session of the character
ExternalSaveSession(session) ==
    /\ managed.connected
    /\ session.character_id = ManagedCharacter
    /\ session.scopes = << "other" >>
    /\ session.access_expires_at = 1000
    /\ token_store' = save_session(token_store, session)
    /\ last_step' = [kind |-> "external_save"]
    /\ UNCHANGED << sso_client, managed >>
    /\ ManagedFrame

\* another holder of the same token store clears the character's session
ExternalClearSession ==
    /\ managed.connected
    /\ token_store' = clear_session(token_store, ManagedCharacter)
    /\ last_step' = [kind |-> "external_clear"]
    /\ UNCHANGED << sso_client, managed >>
    /\ ManagedFrame

\* refresh_loop from its top: the shutdown check, then next_refresh_delay
\* under the state lock; store_ok is whether the token store answers
RefreshNextDelay(store_ok) ==
    LET call == next_refresh_delay(token_store, ManagedCharacter, ManagedNow,
                                   DEFAULT_REFRESH_FLOOR)
        next_delay == IF store_ok THEN [ok |-> TRUE, value |-> call.result]
                      ELSE [ok |-> FALSE]
    IN  /\ managed.task = "loop_top"
        /\ ~managed.dropped
        /\ managed.state_lock = "free"
        /\ token_store' = IF store_ok THEN call.store ELSE token_store
        /\ managed' = after_next_delay(managed, next_delay, DEFAULT_REFRESH_FLOOR)
        /\ last_step' = [kind |-> "refresh_next_delay", next_delay |-> next_delay]
        /\ UNCHANGED sso_client
        /\ ManagedFrame

\* sleep(wait_duration) wins the select
RefreshSleepElapses ==
    /\ managed.task = "waiting"
    /\ ~managed.dropped
    /\ managed' = [managed EXCEPT !.task = "ensure", !.elapsed = @ + managed.wait]
    /\ last_step' = [kind |-> "refresh_sleep"]
    /\ UNCHANGED << token_store, sso_client >>
    /\ ManagedFrame

\* state.lock().await before ensure_valid_session
RefreshEnsureStart ==
    /\ managed.task = "ensure"
    /\ ~managed.dropped
    /\ managed.state_lock = "free"
    /\ managed.ensures < MaxEnsures
    /\ managed' = [managed EXCEPT !.task = "ensuring", !.state_lock = "refresh"]
    /\ last_step' = [kind |-> "refresh_ensure_start"]
    /\ UNCHANGED << token_store, sso_client >>
    /\ ManagedFrame

\* ensure_valid_session answers, the lock is released and the outcome matched
RefreshEnsureCompletes(refresh_result, store_ok) ==
    LET call == ensure_valid_session(token_store, sso_client, ManagedCharacter,
                                     ManagedNow, refresh_result)
        refresh_outcome == IF store_ok THEN [ok |-> TRUE, value |-> call.result]
                           ELSE [ok |-> FALSE]
    IN  /\ managed.task = "ensuring"
        /\ ~managed.dropped
        /\ token_store' = IF store_ok THEN call.store ELSE token_store
        /\ sso_client' = IF store_ok THEN call.client ELSE sso_client
        /\ managed' = after_refresh_outcome(managed, refresh_outcome)
        /\ last_step' = [kind |-> "refresh_ensure",
                         refresh_outcome |-> refresh_outcome,
                         refresh_called |-> store_ok /\ call.refresh_called]
        /\ ManagedFrame

\* sleep(refresh_floor) after an Err from ensure_valid_session
RefreshFloorSleepElapses ==
    /\ managed.task = "floor_sleep"
    /\ ~managed.dropped
    /\ managed' = [managed EXCEPT !.task = "loop_top",
                                  !.elapsed = @ + DEFAULT_REFRESH_FLOOR]
    /\ last_step' = [kind |-> "refresh_floor_sleep"]
    /\ UNCHANGED << token_store, sso_client >>
    /\ ManagedFrame

\* the second store of mark_needs_reauth, and the break
MarkReason ==
    /\ managed.task = "marking"
    /\ managed' = store_reauth_reason(managed)
    /\ last_step' = [kind |-> "mark_reason"]
    /\ UNCHANGED << token_store, sso_client >>
    /\ ManagedFrame

\* get_current_location is called and reads the flag
GetLocationStart ==
    /\ managed.connected
    /\ ~managed.dropped
    /\ managed.caller = "idle"
    /\ Len(managed.calls) < MaxCalls
    /\ managed' = get_current_location(managed)
    /\ last_step' = [kind |-> "get_location_start"]
    /\ UNCHANGED << token_store, sso_client >>
    /\ ManagedFrame

\* the flag was set: the reason is read and NeedsReauth returned
GetLocationFailsFast ==
    /\ managed.caller = "failing"
    /\ LET reason == IF IsSome(reauth_reason(managed))
                     THEN Unwrap(reauth_reason(managed))
                     ELSE "reauthentication required"
       IN  managed' = [CallUpdated(managed, FALSE, FALSE,
                            Some([ok |-> FALSE,
                                  error |-> [variant |-> "NeedsReauth",
                                             reason |-> reason]]))
                       EXCEPT !.caller = "idle"]
    /\ last_step' = [kind |-> "get_location_fails_fast"]
    /\ UNCHANGED << token_store, sso_client >>
    /\ ManagedFrame

\* self.state.lock().await is granted
GetLocationLocks ==
    /\ managed.caller = "locking"
    /\ managed.state_lock = "free"
    /\ managed' = [CallUpdated(managed, TRUE, FALSE, None)
                   EXCEPT !.caller = "calling", !.state_lock = "caller"]
    /\ last_step' = [kind |-> "get_location_locks"]
    /\ UNCHANGED << token_store, sso_client >>
    /\ ManagedFrame

\* the endpoint answers, the guard is dropped, the answer returned
GetLocationCompletes(response) ==
    /\ managed.caller = "calling"
    /\ managed' = [CallUpdated(managed, TRUE, TRUE, Some(response))
                   EXCEPT !.caller = "idle", !.state_lock = "free"]
    /\ last_step' = [kind |-> "get_location_completes"]
    /\ UNCHANGED << token_store, sso_client >>
    /\ ManagedFrame

\* Drop for ManagedEsiClient, no call borrowing it: send(true) and abort()
DropManaged ==
    /\ managed.connected
    /\ ~managed.dropped
    /\ managed.caller = "idle"
    /\ managed' = [managed EXCEPT !.dropped = TRUE]
    /\ last_step' = [kind |-> "drop"]
    /\ UNCHANGED << token_store, sso_client >>
    /\ ManagedFrame

\* the refresh task of a dropped client ends at its shutdown check or at the
\* await where the abort reaches it, releasing the lock if it held it
RefreshStops ==
    /\ managed.dropped
    /\ managed.task \in { "loop_top", "waiting", "ensure", "ensuring", "floor_sleep" }
    /\ managed' = [managed EXCEPT !.task = "stopped",
                                  !.state_lock = IF @ = "refresh" THEN "free" ELSE @]
    /\ last_step' = [kind |-> "refresh_stops"]
    /\ UNCHANGED << token_store, sso_client >>
    /\ ManagedFrame

NextManaged ==
    \/ \E refresh_result \in RefreshResults, api_ready \in BOOLEAN :
            Connect(refresh_result, api_ready)
    \/ \E session \in StoredSessions : ExternalSaveSession(session)
    \/ ExternalClearSession
    \/ \E store_ok \in BOOLEAN : RefreshNextDelay(store_ok)
    \/ RefreshSleepElapses
    \/ RefreshEnsureStart
    \/ \E refresh_result \in RefreshResults, store_ok \in BOOLEAN :
            RefreshEnsureCompletes(refresh_result, store_ok)
    \/ RefreshFloorSleepElapses
    \/ MarkReason
    \/ GetLocationStart
    \/ GetLocationFailsFast
    \/ GetLocationLocks
    \/ \E response \in EndpointResponses : GetLocationCompletes(response)
    \/ DropManaged
    \/ RefreshStops

SpecManaged == InitManaged /\ [][NextManaged]_vars

\* the second store of mark_needs_reauth follows the first without an await
SpecManagedLive == SpecManaged /\ WF_vars(MarkReason)

\* C27: the fast failure.  A get_current_location call that read the flag as
\* set returns NeedsReauth; it never holds the state lock and never calls the
\* endpoint.
FlaggedCallFailsFast ==
    \A i \in DOMAIN managed.calls :
        managed.calls[i].flagged =>
            /\ ~managed.calls[i].locked
            /\ ~managed.calls[i].endpoint
            /\ IsSome(managed.calls[i].result)
               => /\ ~Unwrap(managed.calls[i].result).ok
                  /\ Unwrap(managed.calls[i].result).error.variant = "NeedsReauth"
            /\ (i = Len(managed.calls) /\ managed.caller # "idle")
               => managed.caller = "failing" /\ managed.state_lock # "caller"

\* a call made after the flag was set has returned, with the recorded reason
FlaggedCallWitness ==
    /\ Len(managed.calls) > 0
    /\ managed.calls[Len(managed.calls)].flagged
    /\ managed.calls[Len(managed.calls)].result
            = Some([ok |-> FALSE,
                    error |-> [variant |-> "NeedsReauth",
                               reason |-> "refresh token rejected"]])
    /\ managed.caller = "idle"

\* a call that found the flag clear went through the lock to the endpoint
UnflaggedCallWitness ==
    /\ Len(managed.calls) > 0
    /\ ~managed.calls[1].flagged
    /\ managed.calls[1].locked
    /\ managed.calls[1].endpoint
    /\ managed.needs_reauth

\* the refresh task has marked the client and is leaving or has left its loop
RefreshLeft == managed.task \in { "marking", "exited" }

\* C30: the refresh task gives up on Missing and NeedsReauth.  Whenever the
\* last answer the task got, from next_refresh_delay or ensure_valid_session,
\* is Missing or NeedsReauth, needs_reauth is set and the task is leaving its
\* loop; the reason it stores is the one of that answer; once the flag is set
\* it stays set, and the task calls neither next_refresh_delay nor
\* ensure_valid_session again; and the task then does store the reason and
\* exit.
RefreshGivesUp ==
    /\ [](managed.last_outcome \in { "Missing", "NeedsReauth" }
            => managed.needs_reauth /\ RefreshLeft)
    /\ []((/\ last_step.kind = "refresh_ensure"
           /\ last_step.refresh_outcome.ok
           /\ last_step.refresh_outcome.value.kind = "NeedsReauth")
            => managed.marking = Some(last_step.refresh_outcome.value.reason))
    /\ [][(managed.marking # None /\ managed'.marking = None)
            => managed'.reauth_reason = managed.marking]_vars
    /\ [][managed.needs_reauth
            => /\ managed'.needs_reauth
               /\ managed'.ensures = managed.ensures
               /\ managed'.delays = managed.delays
               /\ RefreshLeft']_vars
    /\ (managed.needs_reauth
            ~> (managed.task = "exited" /\ IsSome(managed.reauth_reason)))

\* the session vanished between the delay and the refresh: Missing from
\* ensure_valid_session, the reason stored, a later caller turned away
RefreshGivesUpWitness ==
    /\ managed.task = "exited"
    /\ managed.last_outcome = "Missing"
    /\ managed.ensures = 1
    /\ managed.reauth_reason = Some("session missing for selected character")
    /\ Len(managed.calls) > 0
    /\ managed.calls[Len(managed.calls)].flagged

\* NeedsReauth from a failed refresh
RefreshRejectedWitness ==
    /\ managed.task = "exited"
    /\ managed.last_outcome = "NeedsReauth"
    /\ managed.ensures = 2
    /\ managed.reauth_reason = Some("refresh token rejected")

\* NeedsReauth from next_refresh_delay, before any ensure_valid_session
DelayReauthWitness ==
    /\ managed.task = "exited"
    /\ managed.last_outcome = "NeedsReauth"
    /\ managed.ensures = 0
    /\ managed.delays = 1

(***************************************************************************)
(* The outcomes of the polls of one ingestor                               *)
(***************************************************************************)
\* poll i has run to its end: it was not cancelled and is not in flight
PollEnded(i) == polls[i].outcome \in { "Success", "ApiFailure", "Terminal" }

\* the client answered poll i with NeedsReauth
AnsweredNeedsReauth(i) ==
    /\ IsSome(polls[i].response)
    /\ ~Unwrap(polls[i].response).ok
    /\ Unwrap(polls[i].response).error = "NeedsReauth"

\* the client answered poll i with another error
AnsweredOtherError(i) ==
    /\ IsSome(polls[i].response)
    /\ ~Unwrap(polls[i].response).ok
    /\ Unwrap(polls[i].response).error # "NeedsReauth"

\* C28: only a Terminal outcome ends the run with an error.  A poll is
\* Terminal exactly when the client answered NeedsReauth or the sink failed;
\* a Terminal poll is the last one, with no event, and the run has returned
\* Err; run_until_shutdown has returned Err only after a Terminal poll.  A
\* poll the client answered with any other error is an ApiFailure: the
\* ingestor goes to sleep for the backoff delay and has not returned Err.
TerminalOnlyEndsRun ==
    /\ \A i \in DOMAIN polls :
        /\ (PollEnded(i) /\ AnsweredNeedsReauth(i)) => polls[i].outcome = "Terminal"
        /\ polls[i].outcome = "Terminal"
           => /\ AnsweredNeedsReauth(i) \/ Unwrap(polls[i].response).ok
              /\ polls[i].event = None
              /\ i = Len(polls)
              /\ ingestor.pc = "returned_err"
        /\ (PollEnded(i) /\ AnsweredOtherError(i)) => polls[i].outcome = "ApiFailure"
        /\ polls[i].outcome = "ApiFailure"
           => /\ AnsweredOtherError(i)
              /\ ingestor.pc # "returned_err" \/ i < Len(polls)
    /\ (last_step.kind = "emit_completes" /\ ~last_step.emitted)
       => /\ polls[Len(polls)].outcome = "Terminal"
          /\ Unwrap(polls[Len(polls)].response).ok
    /\ (last_step.kind = "emit_completes" /\ last_step.emitted)
       => polls[Len(polls)].outcome = "Success"
    /\ (last_step.kind = "fetch_completes" /\ ~last_step.response.ok
            /\ last_step.response.error # "NeedsReauth")
       => /\ ingestor.pc = "sleeping"
          /\ ingestor.wait = Some(next_api_failure_delay(ingestor))
    /\ ingestor.pc = "returned_err"
       => /\ polls # << >>
          /\ polls[Len(polls)].outcome = "Terminal"

\* a poll after an API failure, then the sink fails: Err, and nothing more
TerminalEndsRunWitness ==
    /\ Len(polls) = 3
    /\ polls[1].outcome = "ApiFailure"
    /\ polls[2].outcome = "ApiFailure"
    /\ polls[3].outcome = "Terminal"
    /\ Unwrap(polls[3].response).ok
    /\ ingestor.pc = "returned_err"

\* NeedsReauth from the client ends the run after a successful poll
ReauthEndsRunWitness ==
    /\ Len(polls) = 2
    /\ polls[1].outcome = "Success"
    /\ AnsweredNeedsReauth(2)
    /\ ingestor.pc = "returned_err"

\* run_until_shutdown, and poll_once called directly before it
NextFailures ==
    \/ NextIngestor
    \/ PollOnceApiFailure

SpecFailures == InitIngestor /\ [][NextFailures]_vars

\* the polls after the most recent successful one
SinceLastSuccess ==
    { i \in DOMAIN polls : \A j \in i..Len(polls) : polls[j].outcome # "Success" }

\* C29: the failure counter.  api_consecutive_failures is the number of
\* ApiFailure polls since the most recent Success (or since construction),
\* held at the ceiling of the counter once it is reached: a Success makes it 0,
\* an ApiFailure adds one, a Terminal or cancelled poll leaves it.
FailureCounterRule ==
    ingestor.api_consecutive_failures
        = Min(Cardinality({ i \in SinceLastSuccess : polls[i].outcome = "ApiFailure" }),
              FailuresMax)

\* one failure more than the counter can hold
FailureCounterWitness ==
    /\ Len(polls) = FailuresMax + 1
    /\ \A i \in DOMAIN polls : polls[i].outcome = "ApiFailure"
    /\ ingestor.api_consecutive_failures = FailuresMax

\* a failure, a success that resets the counter, a failure
FailureCounterResetWitness ==
    /\ Len(polls) = 3
    /\ polls[1].outcome = "ApiFailure"
    /\ polls[2].outcome = "Success"
    /\ polls[3].outcome = "ApiFailure"
    /\ ingestor.api_consecutive_failures = 1

\* two failures and a Terminal poll that leaves the counter at two
FailureCounterTerminalWitness ==
    /\ Len(polls) = 3
    /\ polls[1].outcome = "ApiFailure"
    /\ polls[2].outcome = "ApiFailure"
    /\ polls[3].outcome = "Terminal"
    /\ ingestor.api_consecutive_failures = 2

(***************************************************************************)
(* Concurrent emissions on one facade                                      *)
(***************************************************************************)
\* the global_seq values of the rows of the store
StoredSeqs == { r.global_seq : r \in event_log }

\* the values of a history, as a set
Range(history) == { history[i] : i \in DOMAIN history }

\* C31: concurrent emissions are applied once and in order.  With sinks on
\* two tasks and signature recordings on one facade, the records the
\* catch-ups applied are rows of the store, each applied once, in ascending
\* global_seq order; they are exactly the rows up to last_projected_seq; and
\* once every emission has returned, every row of the store has been applied
\* and last_projected_seq is the highest global_seq of the store.
ConcurrentEmitsAppliedOnce ==
    /\ \A i, j \in DOMAIN applied : i < j => applied[i] < applied[j]
    /\ Range(applied) \subseteq StoredSeqs
    /\ Range(applied) = { seq \in StoredSeqs :
                            /\ IsSome(state.last_projected_seq)
                            /\ seq <= Unwrap(state.last_projected_seq) }
    /\ AllEmitsReturned
       => /\ Range(applied) = StoredSeqs
          /\ CaughtUpWithStore

\* two emissions appended before either caught up; the catch-up of the second
\* applied both records, the catch-up of the first came last and found none
ConcurrentEmitsWitness ==
    /\ AllEmitsReturned
    /\ applied = << 1, 2 >>
    /\ last_step.kind = "emit_movement"
    /\ last_step.global_seq = Some(1)
    /\ last_step.result.ok
    /\ \A r \in event_log : r.event_type = CHARACTER_MOVED_EVENT_TYPE

(***************************************************************************)
(* Emissions cancelled between the append and the catch-up                 *)
(***************************************************************************)
\* the select! of run_until_shutdown drops poll_once while emit_movement waits
\* for the state mutex or the store read of its catch-up: the append is
\* done, the catch-up never runs, and the ingestor of this task returns
EmitCancelled(t) ==
    /\ emit[t].pc = "appended"
    /\ emit' = [emit EXCEPT ![t] = [pc |-> "cancelled",
                                    global_seq |-> emit[t].global_seq]]
    /\ last_step' = [kind |-> "emit_cancelled"]
    /\ UNCHANGED << event_log, state, appended, snapshots, applied, esi_vars >>

\* emissions on both tasks, cancellations, and recordings of one snapshot
\* text at an explicit system or at the focused one
NextCancel ==
    \/ \E t \in Tasks, event \in MovementEvents, now \in ClockReadings :
            EmitAppend(t, event, now)
    \/ \E t \in Tasks : EmitCatchUp(t)
    \/ \E t \in Tasks : EmitCancelled(t)
    \/ \E context \in SnapshotContexts, now \in ClockReadings :
            RecordSignatureSnapshot(context, << LineAbc10 >>, now)

SpecCancel == Init /\ [][NextCancel]_vars

\* the step just taken ended with a successful catch-up
CaughtUpStep ==
    \/ last_step.kind = "emit_movement" /\ last_step.result.ok
    \/ /\ last_step.kind = "record_signature_snapshot"
       /\ last_step.result.ok
       /\ last_step.result.outcome.kind = "Recorded"

\* C32: a cancelled emission converges.  The event of an emission cancelled
\* after its append stays in the store; and every step that ends with a
\* successful catch-up, from another emission or a snapshot recording, leaves
\* last_projected_seq at or above that event's global_seq and the projection
\* and last_projected_seq equal to those of a full replay of the store.
CancelledEmitConverges ==
    /\ [](\A t \in Tasks :
            emit[t].pc = "cancelled" => emit[t].global_seq \in StoredSeqs)
    /\ [][ ((\E t \in Tasks : emit[t].pc = "cancelled") /\ CaughtUpStep')
            => /\ \A t \in Tasks :
                    emit[t].pc = "cancelled"
                    => /\ IsSome(state'.last_projected_seq)
                       /\ Unwrap(state'.last_projected_seq) >= emit[t].global_seq
               /\ from_store(event_log').ok
               /\ from_store(event_log').state = state'
         ]_vars

\* the first emission was cancelled behind the projection; the emission of
\* the other task applied both records
CancelledEmitWitness ==
    /\ emit["t1"].pc = "cancelled"
    /\ emit["t1"].global_seq = 1
    /\ last_step.kind = "emit_movement"
    /\ last_step.global_seq = Some(2)
    /\ applied = << 1, 2 >>
    /\ from_store(event_log).state = state

\* the cancelled emission is picked up by a snapshot recording
CancelledEmitSnapshotWitness ==
    /\ \E t \in Tasks : emit[t].pc = "cancelled"
    /\ last_step.kind = "record_signature_snapshot"
    /\ CaughtUpStep
    /\ applied = << 1, 2 >>

\* between the cancellation and the next catch-up the projection is behind
CancelledEmitBehindWitness ==
    /\ \E t \in Tasks : emit[t].pc = "cancelled"
    /\ last_step.kind = "emit_cancelled"
    /\ state.last_projected_seq = None

(***************************************************************************)
(* The facade on a store that other writers append to                      *)
(***************************************************************************)
\* AppRuntime::initialize_from_event_log on the live facade: the state is
\* reset and the log replayed; what was replayed before an error stays
InitializeFromEventLog ==
    \E run \in { initialize_from_event_log(event_log) } :
        /\ state' = run.state
        /\ applied' = AppliedBy(event_log, DefaultState)
        /\ last_step' = [kind |-> "initialize", result |-> run.result]
        /\ UNCHANGED << event_log, emit, appended, snapshots, esi_vars >>

\* the snapshot texts given to the facade here: one that parses, one that fails
FacadeTexts == { << LineAbc10 >>, << LineAbc10, LineBadId >> }

\* one sink, snapshot recordings, replays on the live facade, fresh facades,
\* and another writer that appends records of every kind to the same store
NextFacade ==
    \/ \E kind \in ReplayKinds : ReplayAppend(kind)
    \/ \E event \in MovementEvents, now \in ClockReadings : EmitAppend("t1", event, now)
    \/ EmitCatchUp("t1")
    \/ \E context \in SnapshotContexts, text \in FacadeTexts, now \in ClockReadings :
            RecordSignatureSnapshot(context, text, now)
    \/ InitializeFromEventLog
    \/ FromStore

SpecFacade == Init /\ [][NextFacade]_vars

\* the reducers folded over the records from idx on; ok is false once a
\* record is rejected
RECURSIVE FoldReducers(_, _, _)
FoldReducers(projection, records, idx) ==
    IF idx > Len(records) THEN [ok |-> TRUE, projection |-> projection]
    ELSE LET projected == project_event_record(projection, records[idx])
         IN  IF projected.ok
             THEN FoldReducers(projected.projection, records, idx + 1)
             ELSE [ok |-> FALSE, projection |-> projection]

\* the records of the store up to last_projected_seq, in ascending order
ProjectedPrefix ==
    SelectSeq(read_ordered_events(event_log),
              LAMBDA record : /\ IsSome(state.last_projected_seq)
                              /\ record.global_seq <= Unwrap(state.last_projected_seq))

\* C33: the projection is the fold of the prefix.  In every state the facade
\* reaches, after calls that returned Ok and calls that returned an error,
\* the reducers accept every store record with global_seq <= last_projected_seq
\* and, folded over exactly those records in ascending order from the default
\* projection, give the projection.
ProjectionIsFoldOfPrefix ==
    FoldReducers(DefaultProjection, ProjectedPrefix, 1)
        = [ok |-> TRUE, projection |-> state.projection]

\* a replay on the live facade that failed at the second record
ProjectionIsFoldWitness ==
    /\ last_step.kind = "initialize"
    /\ ~last_step.result.ok
    /\ state.last_projected_seq = Some(1)
    /\ Cardinality(event_log) = 2
    /\ state.projection # DefaultProjection

\* an emission that appended behind a rejected record and returned an error
EmitErrorWitness ==
    /\ last_step.kind = "emit_movement"
    /\ ~last_step.result.ok
    /\ last_step.global_seq = Some(2)
    /\ state.last_projected_seq = None

(***************************************************************************)
(* A batch that fails part-way                                             *)
(***************************************************************************)
\* the guard was just called on a batch and returned an error
BatchFailed == GuardRan /\ ~last_step.result.ok

\* the iterations of the last call that applied their record
AppliedIterations ==
    { i \in DOMAIN last_step.steps : last_step.steps[i].outcome = "applied" }

\* C34: a failing batch is not rolled back.  When the guard fails at a record
\* of a batch, the state is the one the guard reaches on the records before
\* it alone: those stay applied, last_projected_seq is the global_seq of the
\* last of them that was applied (or what it was before the call if none
\* was), and neither the failing record, which the reducer rejects, nor any
\* record after it is applied.
FailedBatchKeepsPrefix ==
    BatchFailed =>
        LET failed_at == Len(last_step.steps)
            prefix == SubSeq(last_step.records, 1, failed_at - 1)
            alone == project_records_with_monotonic_guard(last_step.before, prefix)
        IN  /\ failed_at \in DOMAIN last_step.records
            /\ \A i \in 1..(failed_at - 1) :
                    last_step.steps[i].outcome \in { "applied", "skipped" }
            /\ alone.result.ok
            /\ state = alone.state
            /\ state = StateBeforeIteration(failed_at)
            /\ ~project_event_record(state.projection,
                                     last_step.records[failed_at]).ok
            /\ state.last_projected_seq =
                    IF AppliedIterations = {} THEN last_step.before.last_projected_seq
                    ELSE Some(last_step.records[SetMax(AppliedIterations)].global_seq)

\* the first record applied, the second rejected
FailedBatchWitness ==
    /\ BatchFailed
    /\ last_step.kind = "guard"
    /\ Len(last_step.steps) = 2
    /\ last_step.steps[1].outcome = "applied"
    /\ last_step.before = DefaultState
    /\ state.last_projected_seq = Some(1)
    /\ state.projection # DefaultProjection

\* the first record rejected, the one after it never looked at
FailedBatchRestWitness ==
    /\ BatchFailed
    /\ last_step.kind = "guard"
    /\ Len(last_step.records) = 2
    /\ Len(last_step.steps) = 1
    /\ last_step.records[2].global_seq = 1
    /\ state = last_step.before
    /\ state.last_projected_seq = None

(***************************************************************************)
(* A rejected record above last_projected_seq                              *)
(***************************************************************************)
\* the records of the store above last_projected_seq that the reducer rejects
RejectedAbove ==
    { i \in DOMAIN read_ordered_events(event_log) :
        LET record == read_ordered_events(event_log)[i]
        IN  /\ IsSome(state.last_projected_seq)
               => record.global_seq > Unwrap(state.last_projected_seq)
            /\ ~project_event_record(state.projection, record).ok }

\* the error of the first of them
BlockingError ==
    LET first == CHOOSE i \in RejectedAbove : \A j \in RejectedAbove : i <= j
    IN  project_event_record(state.projection,
                             read_ordered_events(event_log)[first]).error

\* C35: a rejected record blocks the facade.  From a state in which the store
\* holds a rejected record above last_projected_seq, every step keeps
\* last_projected_seq below the global_seq of each such record; every
\* catch-up (of an emission, of a snapshot recording, of a replay on the live
\* facade) returns the error of the first of them; an emission and a
\* recording that get to their append do append their event and return that
\* error; and from_store on that store fails.
RejectedRecordBlocks ==
    [][ RejectedAbove # {}
        => /\ \A i \in RejectedAbove :
                /\ i \in DOMAIN read_ordered_events(event_log')
                /\ read_ordered_events(event_log')[i] = read_ordered_events(event_log)[i]
                /\ IsSome(state'.last_projected_seq)
                   => Unwrap(state'.last_projected_seq)
                        < read_ordered_events(event_log)[i].global_seq
           /\ (last_step'.kind = "emit_movement" /\ IsSome(last_step'.global_seq))
              => /\ Unwrap(last_step'.global_seq) \in { r.global_seq : r \in event_log' }
                 /\ last_step'.result = [ok |-> FALSE, error |-> BlockingError]
           /\ (last_step'.kind = "record_signature_snapshot" /\ event_log' # event_log)
              => /\ \E r \in event_log' \ event_log :
                        r.event_type = SYSTEM_SIGNATURES_OBSERVED_EVENT_TYPE
                 /\ last_step'.result = [ok |-> FALSE, error |-> BlockingError]
           /\ last_step'.kind = "initialize"
              => last_step'.result = [ok |-> FALSE, error |-> BlockingError]
           /\ last_step'.kind = "from_store"
              => last_step'.result = [ok |-> FALSE, error |-> BlockingError]
      ]_vars

\* a snapshot recorded behind a rejected record: appended, and an error
RejectedRecordBlocksWitness ==
    /\ last_step.kind = "record_signature_snapshot"
    /\ ~last_step.result.ok
    /\ last_step.result.error = "UnsupportedSchemaVersion"
    /\ Cardinality(event_log) = 2
    /\ \E r \in event_log : /\ r.global_seq = 2
                            /\ r.event_type = SYSTEM_SIGNATURES_OBSERVED_EVENT_TYPE
    /\ state.last_projected_seq = None
    /\ RejectedAbove = {1}

\* a fresh facade refused on a store whose second record is rejected, the
\* live facade stopped below it
RejectedRecordFromStoreWitness ==
    /\ last_step.kind = "from_store"
    /\ ~last_step.result.ok
    /\ state.last_projected_seq = Some(1)
    /\ RejectedAbove = {2}

(***************************************************************************)
(* The confirmation gate and the store                                     *)
(***************************************************************************)
\* the step is a recording with an Auto context attributed to a character
\* that appended its signature event
AutoRecordingAppended ==
    /\ last_step'.kind = "record_signature_snapshot"
    /\ last_step'.context.kind = "Auto"
    /\ IsSome(last_step'.context.attribution_character_id)
    /\ \E r \in event_log' \ event_log :
            r.event_type = SYSTEM_SIGNATURES_OBSERVED_EVENT_TYPE

\* C36: the gate against the store.  When a recording with Auto{focused,
\* attribution c} appends its signature event, the latest character_moved
\* event of c in the store before the append, if there is one, has
\* to_system_id = focused.
AutoRecordingAtStoredSystem ==
    [][ AutoRecordingAppended
        => LET c == Unwrap(last_step'.context.attribution_character_id)
           IN  MovesOf(c) # {}
               => LatestOf(MovesOf(c)).payload_json.to_system_id
                    = last_step'.context.focused_system_id
      ]_vars

\* the part of it the code keeps: the character's system in the projection,
\* if it has one, is the focused system
AutoRecordingAtProjectedSystem ==
    [][ AutoRecordingAppended
        => LET c == Unwrap(last_step'.context.attribution_character_id)
           IN  c \in DOMAIN state.projection.characters
               => state.projection.characters[c].current_system_id
                    = last_step'.context.focused_system_id
      ]_vars

\* a signature event recorded at the focused system while the store's latest
\* movement of the character, appended by a sink that has not caught up yet,
\* puts the character elsewhere
RecordedAwayFromStoredSystem ==
    /\ last_step.kind = "record_signature_snapshot"
    /\ last_step.context.kind = "Auto"
    /\ last_step.context.attribution_character_id = Some(1)
    /\ last_step.result.ok
    /\ last_step.result.outcome.kind = "Recorded"
    /\ \E t \in Tasks : emit[t].pc = "appended"
    /\ \E r \in event_log : r.event_type = SYSTEM_SIGNATURES_OBSERVED_EVENT_TYPE
    /\ MovesOf(1) # {}
    /\ \A r \in event_log :
            r.event_type = SYSTEM_SIGNATURES_OBSERVED_EVENT_TYPE
            => r.global_seq > LatestOf(MovesOf(1)).global_seq
    /\ LatestOf(MovesOf(1)).payload_json.to_system_id
         # last_step.context.focused_system_id

(***************************************************************************)
(* The chain of the movement events of one ingestor                        *)
(***************************************************************************)
\* the polls whose sink call returned Ok, in emission order
EmittingPolls == SelectSeq(polls, LAMBDA poll : poll.outcome = "Success" /\ IsSome(poll.event))

\* C37: movement chain.  Of the movement events one ingestor has emitted
\* successfully, in emission order, the first has no from_system_id, every
\* later one starts in the system the one before it went to, and none stays
\* in its system, whatever API failures lie between the emissions.
MovementChain ==
    \A i \in DOMAIN EmittingPolls :
        LET event == Unwrap(EmittingPolls[i].event)
        IN  /\ event.from_system_id =
                  (IF i = 1 THEN None
                   ELSE Some(Unwrap(EmittingPolls[i - 1].event).to_system_id))
            /\ event.from_system_id # Some(event.to_system_id)
            /\ event.character_id = IngestorCharacter

\* two emissions with an API failure between them
MovementChainWitness ==
    /\ Len(polls) = 3
    /\ polls[1].outcome = "Success" /\ IsSome(polls[1].event)
    /\ polls[2].outcome = "ApiFailure"
    /\ polls[3].outcome = "Success" /\ IsSome(polls[3].event)
    /\ Unwrap(polls[3].event).from_system_id
         = Some(Unwrap(polls[1].event).to_system_id)

\* two emissions with a poll between them that saw the character in another
\* station of the same system
MovementChainStationWitness ==
    /\ Len(EmittingPolls) = 2
    /\ Len(polls) = 3
    /\ polls[2].outcome = "Success" /\ ~IsSome(polls[2].event)
    /\ Unwrap(polls[2].response).location # Unwrap(polls[1].response).location

(***************************************************************************)
(* The flag and its reason                                                 *)
(***************************************************************************)
\* C38: a reason with the flag.  Whenever requires_reauth() returns true,
\* reauth_reason() returns Some, wherever the refresh task and the callers
\* stand.
FlagHasReason ==
    requires_reauth(managed) => IsSome(reauth_reason(managed))

\* the part of it the code keeps: a reason is recorded only with the flag set,
\* and the flag is without its reason only between the two stores of
\* mark_needs_reauth
ReasonOnlyWithFlag ==
    /\ IsSome(reauth_reason(managed)) => requires_reauth(managed)
    /\ (requires_reauth(managed) /\ ~IsSome(reauth_reason(managed)))
       => managed.task = "marking"

\* a caller that read the flag between the two stores has returned NeedsReauth
\* with the stand-in reason, the recorded one being in place by now
FlagWithoutReasonWitness ==
    /\ Len(managed.calls) > 0
    /\ managed.calls[Len(managed.calls)].flagged
    /\ managed.calls[Len(managed.calls)].result
            = Some([ok |-> FALSE,
                    error |-> [variant |-> "NeedsReauth",
                               reason |-> "reauthentication required"]])
    /\ reauth_reason(managed) = Some("refresh token rejected")

(***************************************************************************)
(* Signature projections accumulate                                        *)
(***************************************************************************)
\* the signatures a projection holds for a system
SignaturesIn(projection, system_id) ==
    IF system_id \in DOMAIN projection.signatures_by_system
    THEN projection.signatures_by_system[system_id].signatures_by_id
    ELSE EmptyMap

\* whenever latest_scan_percent is set, highest_scan_percent_seen is set and
\* is no lower
HighestCoversLatest ==
    \A system_id \in SolarSystemIds :
        \A id \in DOMAIN ProjectedSignatures(system_id) :
            LET signature == ProjectedSignatures(system_id)[id]
            IN  IsSome(signature.latest_scan_percent)
                => /\ IsSome(signature.highest_scan_percent_seen)
                   /\ Unwrap(signature.highest_scan_percent_seen)
                        >= Unwrap(signature.latest_scan_percent)

\* applying a snapshot removes no signature, lowers no
\* highest_scan_percent_seen, and leaves every other system as it was
SnapshotOnlyAdds ==
    last_step'.kind = "apply_snapshot"
    => \A system_id \in SolarSystemIds :
        /\ \A id \in DOMAIN SignaturesIn(state.projection, system_id) :
            /\ id \in DOMAIN SignaturesIn(state'.projection, system_id)
            /\ LET before == SignaturesIn(state.projection, system_id)[id]
                   after == SignaturesIn(state'.projection, system_id)[id]
               IN  /\ after.signature_id = before.signature_id
                   /\ IsSome(before.highest_scan_percent_seen)
                      => /\ IsSome(after.highest_scan_percent_seen)
                         /\ Unwrap(after.highest_scan_percent_seen)
                              >= Unwrap(before.highest_scan_percent_seen)
        /\ system_id # last_step'.payload.system_id
           => /\ (system_id \in DOMAIN state'.projection.signatures_by_system)
                 <=> (system_id \in DOMAIN state.projection.signatures_by_system)
              /\ system_id \in DOMAIN state.projection.signatures_by_system
                 => state'.projection.signatures_by_system[system_id]
                      = state.projection.signatures_by_system[system_id]

\* C39: signature projections only accumulate.  Applying a snapshot never
\* removes a signature from its system's signatures_by_id and never touches
\* the entries of another system; highest_scan_percent_seen never decreases;
\* and whenever latest_scan_percent is set, highest_scan_percent_seen is set
\* and is at least as high.
SignaturesAccumulate ==
    /\ []HighestCoversLatest
    /\ [][SnapshotOnlyAdds]_vars

\* a signature seen at 100.0% and then at 50.0% is still projected, marked
\* missing, after a snapshot of its system that lists another signature only
SignaturesAccumulateWitness ==
    /\ last_step.kind = "apply_snapshot"
    /\ last_step.payload.system_id = 1
    /\ last_step.payload.entries = << signature_entry(SigXyz, Some(500)) >>
    /\ SigAbc \in DOMAIN ProjectedSignatures(1)
    /\ ProjectedSignatures(1)[SigAbc].missing_from_latest_snapshot
    /\ ProjectedSignatures(1)[SigAbc].latest_scan_percent = Some(500)
    /\ ProjectedSignatures(1)[SigAbc].highest_scan_percent_seen = Some(1000)

\* a snapshot of one system applied while another system holds signatures
OtherSystemWitness ==
    /\ last_step.kind = "apply_snapshot"
    /\ last_step.payload.system_id = 2
    /\ last_step.payload.entries # << >>
    /\ DOMAIN ProjectedSignatures(1) = { SigAbc, SigXyz }
    /\ DOMAIN ProjectedSignatures(2) # {}

(***************************************************************************)
(* The scope check after a refresh                                         *)
(***************************************************************************)
\* the last call was ensure_valid_session and it called client.refresh
RefreshWasCalled ==
    /\ last_step.kind = "ensure_valid_session"
    /\ last_step.refresh_called

\* C40: the second scope check never fires.  When ensure_valid_session has
\* called client.refresh and the call succeeded, the result is Ready, the
\* character's session is still in the store and carries the scopes it had
\* before; a NeedsReauth that follows a refresh call is the refresh call's
\* own failure, with the store as it was.
RefreshKeepsScopes ==
    /\ (RefreshWasCalled /\ last_step.refresh_result.ok)
       => /\ last_step.result.kind = "Ready"
          /\ last_step.result.session.scopes = SessionBefore.scopes
          /\ CoversRequired(last_step.result.session.scopes)
          /\ last_step.character_id \in DOMAIN token_store
          /\ token_store[last_step.character_id].scopes = SessionBefore.scopes
    /\ (RefreshWasCalled /\ last_step.result.kind # "Ready")
       => /\ ~last_step.refresh_result.ok
          /\ last_step.result.kind = "NeedsReauth"
          /\ last_step.result.reason
                = EsiError_to_string(last_step.refresh_result.error)
          /\ token_store = last_step.store_before

\* a session holding exactly the required scopes and about to expire, refreshed
RefreshKeepsScopesWitness ==
    /\ RefreshWasCalled
    /\ last_step.refresh_result.ok
    /\ SessionBefore.scopes = RequiredScopes
    /\ SessionBefore.access_expires_at = 510
    /\ last_step.result.kind = "Ready"
    /\ token_store[last_step.character_id].access_token
         = last_step.refresh_result.tokens.access_token

\* a refresh call that failed: NeedsReauth, the session still stored
RefreshFailedWitness ==
    /\ RefreshWasCalled
    /\ ~last_step.refresh_result.ok
    /\ last_step.result.kind = "NeedsReauth"
    /\ last_step.character_id \in DOMAIN token_store

====
